---- MODULE Spec2Model ----
(***************************************************************************)
(* Model of @valkyr/auth: the permission schema, the roles with their      *)
(* per-entity overrides, the Access evaluator and the Permission result.   *)
(*                                                                         *)
(* JavaScript values are modelled as records that always carry the same    *)
(* fields: `kind` tells undefined / true / object apart, and a `hasX` flag *)
(* tells whether key X is present on an object ("X" in obj).                *)
(***************************************************************************)
EXTENDS Integers, Sequences, FiniteSets, Bags, TLC

VARIABLES
  permissions,   \* Access.permissions: the permission schema (configuration)
  assignments,   \* Access.assignments: the Role[] the Access was built with
  roleRows,      \* table valkyr_roles: roleId -> row
  entityRows,    \* table valkyr_role_entities: a bag of rows, the table has no unique key
  out,           \* the last call made and what it returned
  heap,          \* the Role instances the application holds, in order of construction
  batches,       \* the RolePermission instances: the Role each was made for and its operations
  calls,         \* the setPermissions calls started by commit(), in flight or settled
  keyCache,      \* #secret and #pubkey of the Auth and of the SQLiteAuth instance
  imports,       \* the key imports started, importPKCS8 or importSPKI, in order
  authCalls,     \* the generate and resolve calls started, in flight or settled
  failed,        \* the key imports whose promise rejected
  now,           \* the clock jose reads, in seconds
  issued,        \* the tokens generate has signed, and what resolve has answered for each
  guards         \* Auth.#guards: the registry built by the constructor, name -> Guard

roleVars == <<heap, batches, calls>>

authVars == <<keyCache, imports, authCalls>>

tokenVars == <<failed, now, issued>>

guardVars == <<guards>>

vars == <<permissions, assignments, roleRows, entityRows, out, roleVars, authVars, tokenVars, guardVars>>

----------------------------------------------------------------------------
(* Bounds and value domains *)

MaxAssignments == 2
MaxEntityRows == 2
MaxRecords == 2
MaxOperations == 2
MaxCommits == 2
MaxAuthCalls == 2
MaxTime == 3
MaxTokens == 2

ResourceIds == {"users"}
ActionIds == {"read", "update"}
Conditions == {"tenant-a", "tenant-b"}
UNDEFINED == "undefined"
DataValues == Conditions \cup {UNDEFINED}

PERMISSION_DENIED_MESSAGE == "Permission denied"
GENERIC_MESSAGE == "Session is missing one, or more access permissions."
VALIDATOR_ERROR == "Does not have permission"

----------------------------------------------------------------------------
(* Role permissions: resource -> action -> true | { conditions?, filter? } *)

NoEntry == [kind |-> "undefined", hasConditions |-> FALSE, conditions |-> UNDEFINED,
            hasFilter |-> FALSE, filter |-> <<>>]
TrueEntry == [kind |-> "true", hasConditions |-> FALSE, conditions |-> UNDEFINED,
              hasFilter |-> FALSE, filter |-> <<>>]
CondEntry(c) == [kind |-> "object", hasConditions |-> TRUE, conditions |-> c,
                 hasFilter |-> FALSE, filter |-> <<>>]
FilterEntry(f) == [kind |-> "object", hasConditions |-> FALSE, conditions |-> UNDEFINED,
                   hasFilter |-> TRUE, filter |-> f]
CondFilterEntry(c, f) == [kind |-> "object", hasConditions |-> TRUE, conditions |-> c,
                          hasFilter |-> TRUE, filter |-> f]

NoResource == [present |-> FALSE, acts |-> [a \in ActionIds |-> NoEntry]]
Resource(acts) == [present |-> TRUE, acts |-> acts]

RoleFilters == {<<"name">>, <<"name", "email">>}

ReadEntries ==
  {NoEntry, TrueEntry}
    \cup {CondEntry(c) : c \in Conditions}
    \cup {FilterEntry(f) : f \in RoleFilters}
    \cup {CondFilterEntry("tenant-a", <<"email">>)}

UpdateEntries == {NoEntry, TrueEntry}

RolePermissions ==
  {[r \in ResourceIds |-> NoResource]}
    \cup {[r \in ResourceIds |-> Resource([a \in ActionIds |-> IF a = "read" THEN e ELSE u])] :
            e \in ReadEntries, u \in UpdateEntries}

----------------------------------------------------------------------------
(* Permission schema: resource -> action -> true | { validator?, filter? } *)

NoAction == [kind |-> "undefined", hasValidator |-> FALSE, validate |-> "none", error |-> "",
             hasFilter |-> FALSE, filter |-> <<>>]
TrueAction == [kind |-> "true", hasValidator |-> FALSE, validate |-> "none", error |-> "",
               hasFilter |-> FALSE, filter |-> <<>>]
ObjectAction(hasV, hasF, f) ==
  [kind |-> "object", hasValidator |-> hasV,
   validate |-> IF hasV THEN "sameTenant" ELSE "none",
   error |-> IF hasV THEN VALIDATOR_ERROR ELSE "",
   hasFilter |-> hasF, filter |-> IF hasF THEN f ELSE <<>>]

SchemaReadActions ==
  {NoAction, TrueAction} \cup {ObjectAction(v, f, <<"name">>) : v \in BOOLEAN, f \in BOOLEAN}
SchemaUpdateActions == {NoAction, TrueAction}

NoSchemaResource == [present |-> FALSE, acts |-> [a \in ActionIds |-> NoAction]]

Schemas ==
  {[r \in ResourceIds |-> NoSchemaResource]}
    \cup {[r \in ResourceIds |->
             [present |-> TRUE, acts |-> [a \in ActionIds |-> IF a = "read" THEN e ELSE u]]] :
            e \in SchemaReadActions, u \in SchemaUpdateActions}

\* ConditionFn of a validator: the tenant of the data must be the tenant of the conditions
validate(fn, data, conditions) ==
  IF fn = "sameTenant" THEN data # UNDEFINED /\ data = conditions ELSE FALSE

----------------------------------------------------------------------------
(* Access *)

\* this.permissions[resourceId]?.[actionId]
SchemaAction(perms, resourceId, actionId) ==
  IF perms[resourceId].present THEN perms[resourceId].acts[actionId] ELSE NoAction

\* assignment.permissions[resourceId]?.[actionId]
RoleAction(rolePermissions, resourceId, actionId) ==
  IF rolePermissions[resourceId].present THEN rolePermissions[resourceId].acts[actionId] ELSE NoEntry

NoValidator == [defined |-> FALSE, validate |-> "none", error |-> ""]

getActionValidator(perms, resourceId, actionId) ==
  LET action == SchemaAction(perms, resourceId, actionId) IN
    IF action.kind = "undefined" \/ action.kind = "true" THEN NoValidator
    ELSE IF action.hasValidator
      THEN [defined |-> TRUE, validate |-> action.validate, error |-> action.error]
      ELSE NoValidator

\* hasCallback with the bare value true honoured only for actions without a Validator
hasCallback_TrueNeedsNoValidator(validator, rolePermissions, resourceId, actionId, data) ==
  LET resource == rolePermissions[resourceId] IN
    IF ~resource.present THEN FALSE
    ELSE LET action == resource.acts[actionId] IN
      IF action.kind = "undefined" THEN FALSE
      ELSE IF action.kind = "true" THEN ~validator.defined
      ELSE IF validator.defined
        THEN action.hasConditions /\ validate(validator.validate, data, action.conditions)
        ELSE action.hasFilter

\* hasCallback that accepts the presence of conditions without running the Validator
hasCallback_SkipsValidate(validator, rolePermissions, resourceId, actionId, data) ==
  LET resource == rolePermissions[resourceId] IN
    IF ~resource.present THEN FALSE
    ELSE LET action == resource.acts[actionId] IN
      IF action.kind = "undefined" THEN FALSE
      ELSE IF action.kind = "true" THEN TRUE
      ELSE IF validator.defined THEN action.hasConditions
      ELSE action.hasFilter

\* hasCallback that rejects every non-true entry when the action has no Validator
hasCallback_NoValidatorDenies(validator, rolePermissions, resourceId, actionId, data) ==
  LET resource == rolePermissions[resourceId] IN
    IF ~resource.present THEN FALSE
    ELSE LET action == resource.acts[actionId] IN
      IF action.kind = "undefined" THEN FALSE
      ELSE IF action.kind = "true" THEN TRUE
      ELSE IF validator.defined
        THEN action.hasConditions /\ validate(validator.validate, data, action.conditions)
        ELSE FALSE

\* the callback of this.assignments.some(...)
hasCallback(validator, rolePermissions, resourceId, actionId, data) ==
  LET resource == rolePermissions[resourceId] IN
    IF ~resource.present THEN FALSE
    ELSE LET action == resource.acts[actionId] IN
      IF action.kind = "undefined" THEN FALSE
      ELSE IF action.kind = "true" THEN TRUE
      ELSE IF validator.defined
        THEN action.hasConditions /\ validate(validator.validate, data, action.conditions)
        ELSE action.hasFilter

\* some that looks at the first role only
some_FirstOnly(roles, validator, resourceId, actionId, data) ==
  IF roles = <<>> THEN FALSE
  ELSE hasCallback(validator, Head(roles), resourceId, actionId, data)

RECURSIVE some(_, _, _, _, _)
some(roles, validator, resourceId, actionId, data) ==
  IF roles = <<>> THEN FALSE
  ELSE IF hasCallback(validator, Head(roles), resourceId, actionId, data) THEN TRUE
  ELSE some(Tail(roles), validator, resourceId, actionId, data)

has(perms, roles, resourceId, actionId, data) ==
  some(roles, getActionValidator(perms, resourceId, actionId), resourceId, actionId, data)

\* Set.prototype.add in insertion order: Array.from(filter) lists first occurrences
RECURSIVE setAddAll(_, _)
setAddAll(list, items) ==
  IF items = <<>> THEN list
  ELSE setAddAll(IF \E i \in 1..Len(list) : list[i] = Head(items)
                   THEN list ELSE Append(list, Head(items)),
                 Tail(items))

\* scanFilters in which a later filter replaces the earlier ones instead of joining them
RECURSIVE scanFilters_LastWins(_, _, _, _)
scanFilters_LastWins(roles, resourceId, actionId, acc) ==
  IF roles = <<>> THEN acc
  ELSE LET action == RoleAction(Head(roles), resourceId, actionId) IN
    scanFilters_LastWins(Tail(roles), resourceId, actionId,
      IF action.kind = "undefined" \/ action.kind = "true" THEN acc
      ELSE IF action.hasFilter
        THEN [fallback |-> FALSE, filter |-> action.filter]
        ELSE acc)

\* the for-loop of #getActionFilter: <<fallback, filter>> after scanning the assignments
RECURSIVE scanFilters(_, _, _, _)
scanFilters(roles, resourceId, actionId, acc) ==
  IF roles = <<>> THEN acc
  ELSE LET action == RoleAction(Head(roles), resourceId, actionId) IN
    scanFilters(Tail(roles), resourceId, actionId,
      IF action.kind = "undefined" \/ action.kind = "true" THEN acc
      ELSE IF action.hasFilter
        THEN [fallback |-> FALSE, filter |-> setAddAll(acc.filter, action.filter)]
        ELSE acc)

NoFilter == [defined |-> FALSE, filter |-> <<>>]

\* a merge that leaves out the filters of the assignments whose entry has conditions
getActionFilter_UnconditionalOnly(perms, roles, resourceId, actionId) ==
  LET free == SelectSeq(roles, LAMBDA role : ~RoleAction(role, resourceId, actionId).hasConditions)
      scan == scanFilters(free, resourceId, actionId, [fallback |-> TRUE, filter |-> <<>>])
      action == SchemaAction(perms, resourceId, actionId)
  IN IF ~scan.fallback THEN [defined |-> TRUE, filter |-> scan.filter]
     ELSE IF action.kind = "undefined" \/ action.kind = "true" THEN NoFilter
     ELSE IF action.hasFilter THEN [defined |-> TRUE, filter |-> action.filter]
     ELSE NoFilter

\* #getActionFilter: the union of the assignments' filters, or the filter of the schema
getActionFilter(perms, roles, resourceId, actionId) ==
  LET scan == scanFilters(roles, resourceId, actionId, [fallback |-> TRUE, filter |-> <<>>])
      action == SchemaAction(perms, resourceId, actionId)
  IN IF ~scan.fallback THEN [defined |-> TRUE, filter |-> scan.filter]
     ELSE IF action.kind = "undefined" \/ action.kind = "true" THEN NoFilter
     ELSE IF action.hasFilter THEN [defined |-> TRUE, filter |-> action.filter]
     ELSE NoFilter

getActionError(perms, resourceId, actionId) ==
  LET validator == getActionValidator(perms, resourceId, actionId) IN
    [defined |-> validator.defined, error |-> validator.error]

----------------------------------------------------------------------------
(* Permission *)

\* Permission that takes the filter of any response, granted or not
Permission_FilterAlways(response) ==
  LET setMessage == ~response.granted /\ response.hasMessage /\ response.message # "" IN
    [granted |-> response.granted,
     hasMessage |-> setMessage,
     message |-> IF setMessage THEN response.message ELSE "",
     hasAttributes |-> response.hasFilter,
     attributes |-> IF response.hasFilter THEN response.filter ELSE <<>>]

\* new Permission(response): a truthy filter is any array, a truthy message any non-empty string
Permission(response) ==
  LET setAttributes == response.granted /\ response.hasFilter
      setMessage == ~response.granted /\ response.hasMessage /\ response.message # ""
  IN [granted |-> response.granted,
      hasMessage |-> setMessage,
      message |-> IF setMessage THEN response.message ELSE "",
      hasAttributes |-> setAttributes,
      attributes |-> IF setAttributes THEN response.filter ELSE <<>>]

Granted(f) ==
  [granted |-> TRUE, hasFilter |-> f.defined, filter |-> f.filter, hasMessage |-> FALSE, message |-> ""]
Denied(m) ==
  [granted |-> FALSE, hasFilter |-> FALSE, filter |-> <<>>, hasMessage |-> TRUE, message |-> m]

\* check that always denies with the generic message
check_GenericMessage(perms, roles, resourceId, actionId, data) ==
  IF has(perms, roles, resourceId, actionId, data) = FALSE
    THEN Permission([granted |-> FALSE, hasFilter |-> FALSE, filter |-> <<>>,
                     hasMessage |-> TRUE, message |-> GENERIC_MESSAGE])
    ELSE Permission([granted |-> TRUE,
                     hasFilter |-> getActionFilter(perms, roles, resourceId, actionId).defined,
                     filter |-> getActionFilter(perms, roles, resourceId, actionId).filter,
                     hasMessage |-> FALSE, message |-> ""])

check(perms, roles, resourceId, actionId, data) ==
  IF has(perms, roles, resourceId, actionId, data) = FALSE
    THEN LET e == getActionError(perms, resourceId, actionId) IN
           Permission(Denied(IF e.defined THEN e.error ELSE GENERIC_MESSAGE))
    ELSE Permission(Granted(getActionFilter(perms, roles, resourceId, actionId)))

(* Records handed to Permission.filter: tagged JavaScript values *)
Undefined == [t |-> "undefined"]
Str(s) == [t |-> "string", s |-> s]
Obj(o) == [t |-> "object", o |-> o]
Arr(items) == [t |-> "array", items |-> items]

\* a dot-path and the keys it walks
PathSegments(path) ==
  IF path = "profile.age" THEN <<"profile", "age">> ELSE <<path>>

\* getProperty of dot-prop: walk the segments, undefined as soon as one is missing
RECURSIVE walk(_, _)
walk(value, segments) ==
  IF segments = <<>> THEN value
  ELSE IF value.t = "object" /\ Head(segments) \in DOMAIN value.o
    THEN walk(value.o[Head(segments)], Tail(segments))
    ELSE Undefined

getProperty(data, path) == walk(data, PathSegments(path))

\* projection that leaves out the keys whose path is missing from the record
filterWithAttributes_SkipsMissing(data, keys) ==
  Obj([k \in {keys[i] : i \in 1..Len(keys)} \cap
              {key \in {keys[i] : i \in 1..Len(keys)} : getProperty(data, key) # Undefined}
         |-> getProperty(data, k)])

filterWithAttributes(data, keys) ==
  Obj([k \in {keys[i] : i \in 1..Len(keys)} |-> getProperty(data, k)])

filter(permission, data) ==
  IF ~permission.hasAttributes THEN data
  ELSE IF data.t = "array"
    THEN Arr([i \in 1..Len(data.items) |-> filterWithAttributes(data.items[i], permission.attributes)])
    ELSE filterWithAttributes(data, permission.attributes)

----------------------------------------------------------------------------
(* Role repository of the SQLite store *)

RoleIds == <<"role-1", "role-2">>
RoleIdSet == {RoleIds[i] : i \in 1..Len(RoleIds)}
TenantIds == {"tenant-a", "tenant-b"}
EntityIds == {"entity-a", "entity-b"}
Pairs == ResourceIds \X ActionIds

NoRoleRow == [exists |-> FALSE, tenantId |-> "", permissions |-> [r \in ResourceIds |-> NoResource]]

\* role payloads of the store tests: moderator, user, and a role with a conditional create
Moderator ==
  [r \in ResourceIds |->
    Resource([a \in ActionIds |-> IF a = "read" THEN FilterEntry(<<"name", "email">>) ELSE TrueEntry])]
User ==
  [r \in ResourceIds |->
    Resource([a \in ActionIds |-> IF a = "read" THEN FilterEntry(<<"name">>) ELSE NoEntry])]
RolePayloads == {Moderator, User}

\* entity overrides: resource -> action -> conditions, resource -> action -> filter
NoConditions == [p \in Pairs |-> UNDEFINED]
NoFilters == [p \in Pairs |-> NoFilter]
ConditionOverrides ==
  {[p \in Pairs |-> IF p = <<"users", "read">> THEN "tenant-b" ELSE UNDEFINED]}
FilterOverrides ==
  {[p \in Pairs |-> IF p = <<"users", "read">> THEN [defined |-> TRUE, filter |-> <<"email">>] ELSE NoFilter],
   [p \in Pairs |-> IF p = <<"users", "update">> THEN [defined |-> TRUE, filter |-> <<"name">>] ELSE NoFilter]}

NullColumn(empty) == [null |-> TRUE, value |-> empty]
Column(v) == [null |-> FALSE, value |-> v]

NoEntityRow ==
  [roleId |-> "", entityId |-> "", conditions |-> NullColumn(NoConditions), filters |-> NullColumn(NoFilters)]

\* the rows of one role-entity pair; the table has no unique key, a pair can have several
EntityRowsOf(rows, roleId, entityId) ==
  {row \in BagToSet(rows) : row.roleId = roleId /\ row.entityId = entityId}

\* SELECT without ORDER BY: which row of a pair comes first is the database's choice
FirstRows(rows, entityId) ==
  {first \in [RoleIdSet -> BagToSet(rows) \cup {NoEntityRow}] :
     \A roleId \in RoleIdSet :
       IF EntityRowsOf(rows, roleId, entityId) = {}
         THEN first[roleId] = NoEntityRow
         ELSE first[roleId] \in EntityRowsOf(rows, roleId, entityId)}

\* entities.getEntity: the first row of the pair, JSON.parse(column ?? "{}")
getEntity(first, roleId) ==
  IF first[roleId] = NoEntityRow
    THEN [defined |-> FALSE, conditions |-> NoConditions, filters |-> NoFilters]
    ELSE [defined |-> TRUE, conditions |-> first[roleId].conditions.value,
          filters |-> first[roleId].filters.value]

\* leftFold: an override creates the resource and the action entry when they are missing and
\* sets the key on the entry; setting a key on the primitive true throws in a module (strict mode)
leftFoldThrows(target, conditions, filters) ==
  \E p \in Pairs :
    /\ conditions[p] # UNDEFINED \/ filters[p].defined
    /\ RoleAction(target, p[1], p[2]).kind = "true"

\* a fold that applies an override only to an entry the role already has
leftFoldEntry_ExistingOnly(entry, condition, filterOverride) ==
  IF entry.kind = "undefined" \/ (condition = UNDEFINED /\ ~filterOverride.defined) THEN entry
  ELSE [kind |-> "object",
        hasConditions |-> entry.hasConditions \/ condition # UNDEFINED,
        conditions |-> IF condition # UNDEFINED THEN condition ELSE entry.conditions,
        hasFilter |-> entry.hasFilter \/ filterOverride.defined,
        filter |-> IF filterOverride.defined THEN filterOverride.filter ELSE entry.filter]

leftFoldEntry(entry, condition, filterOverride) ==
  IF condition = UNDEFINED /\ ~filterOverride.defined THEN entry
  ELSE [kind |-> "object",
        hasConditions |-> entry.hasConditions \/ condition # UNDEFINED,
        conditions |-> IF condition # UNDEFINED THEN condition ELSE entry.conditions,
        hasFilter |-> entry.hasFilter \/ filterOverride.defined,
        filter |-> IF filterOverride.defined THEN filterOverride.filter ELSE entry.filter]

leftFold(target, conditions, filters) ==
  [r \in ResourceIds |->
    [present |-> target[r].present
                   \/ \E a \in ActionIds : conditions[<<r, a>>] # UNDEFINED \/ filters[<<r, a>>].defined,
     acts |-> [a \in ActionIds |->
                leftFoldEntry(target[r].acts[a], conditions[<<r, a>>], filters[<<r, a>>])]]]

Threw == [threw |-> TRUE, roles |-> <<>>]
Returned(roles) == [threw |-> FALSE, roles |-> roles]

RoleOf(roles, roleId) ==
  [roleId |-> roleId, tenantId |-> roles[roleId].tenantId, permissions |-> roles[roleId].permissions]

\* override: one Role per joined row, its permissions folded with the entity's overrides
RECURSIVE override(_, _, _)
override(roles, first, joined) ==
  IF joined = <<>> THEN Returned(<<>>)
  ELSE LET role == RoleOf(roles, Head(joined))
           entity == getEntity(first, role.roleId)
       IN IF entity.defined /\ leftFoldThrows(role.permissions, entity.conditions, entity.filters)
            THEN Threw
          ELSE LET rest == override(roles, first, Tail(joined)) IN
            IF rest.threw THEN Threw
            ELSE Returned(<<[role EXCEPT !.permissions =
                               IF entity.defined
                                 THEN leftFold(role.permissions, entity.conditions, entity.filters)
                                 ELSE role.permissions]>> \o rest.roles)

\* a join without the tenant condition
JoinCount_AnyTenant(roles, rows, tenants, entityId, roleId) ==
  IF roles[roleId].exists
    THEN BagCardinality([row \in EntityRowsOf(rows, roleId, entityId) |-> rows[row]])
    ELSE 0

\* roles INNER JOIN entities: one role per entity row of the entity, roles of the given tenants
\* only, in whatever order the database returns them
JoinCount(roles, rows, tenants, entityId, roleId) ==
  IF roles[roleId].exists /\ roles[roleId].tenantId \in tenants
    THEN BagCardinality([row \in EntityRowsOf(rows, roleId, entityId) |-> rows[row]])
    ELSE 0

Count(seq, x) == Cardinality({i \in 1..Len(seq) : seq[i] = x})

Joined(roles, rows, tenants, entityId) ==
  LET n == BagCardinality([row \in {r \in BagToSet(rows) : r.entityId = entityId} |-> rows[row]]) IN
    {joined \in UNION {[1..k -> RoleIdSet] : k \in 0..n} :
       \A roleId \in RoleIdSet : Count(joined, roleId) = JoinCount(roles, rows, tenants, entityId, roleId)}

getRole(roles, roleId) ==
  IF roles[roleId].exists
    THEN [defined |-> TRUE, role |-> RoleOf(roles, roleId)]
    ELSE [defined |-> FALSE, role |-> RoleOf(roles, roleId)]

getRoles(roles, first, joined) ==
  IF joined = <<>> THEN Returned(<<>>) ELSE override(roles, first, joined)

getRolesByEntityId(roles, first, joined) == override(roles, first, joined)

\* UPDATE ... WHERE role_id = roleId AND entity_id = entityId: every row of the pair
updated(row, roleId, entityId, column, v) ==
  IF row.roleId = roleId /\ row.entityId = entityId
    THEN IF column = "conditions" THEN [row EXCEPT !.conditions = Column(v)]
         ELSE [row EXCEPT !.filters = Column(v)]
    ELSE row

setColumn(rows, roleId, entityId, column, v) ==
  LET targets == {updated(row, roleId, entityId, column, v) : row \in BagToSet(rows)} IN
    [t \in targets |->
      BagCardinality([row \in {r \in BagToSet(rows) : updated(r, roleId, entityId, column, v) = t}
                        |-> rows[row]])]

\* a delete that removes one row of the pair and leaves its duplicates
deleteRows_OneRow(rows, roleId, entityId) ==
  LET target == CHOOSE row \in EntityRowsOf(rows, roleId, entityId) : TRUE IN
    [row \in {r \in BagToSet(rows) : r # target \/ rows[r] > 1} |->
      IF row = target THEN rows[row] - 1 ELSE rows[row]]

\* DELETE ... WHERE role_id = roleId AND entity_id = entityId
deleteRows(rows, roleId, entityId) ==
  [row \in BagToSet(rows) \ EntityRowsOf(rows, roleId, entityId) |-> rows[row]]

----------------------------------------------------------------------------
(* Role, RolePermission and setPermissions of the role repository *)

\* operations of a batch; an absent action or absent data is undefined
SetOperation(resource, action, data) ==
  [type |-> "set", resource |-> resource, action |-> action, data |-> data]
UnsetOperation(resource, action) ==
  [type |-> "unset", resource |-> resource, action |-> action, data |-> NoEntry]

\* assign: permissions[resource] ??= {}; permissions[resource][action] = conditions ?? true
assign(perms, resource, action, conditions) ==
  LET acts == IF perms[resource].present THEN perms[resource].acts ELSE NoResource.acts IN
    [perms EXCEPT ![resource] =
      Resource([acts EXCEPT ![action] = IF conditions.kind = "undefined" THEN TrueEntry ELSE conditions])]

\* remove that deletes the entry of the resource whether or not an action is given
remove_WholeResource(perms, resource, action) ==
  [perms EXCEPT ![resource] = NoResource]

\* remove: a truthy action deletes that action of the resource, if the resource is there;
\* without one the entry of the resource is deleted
remove(perms, resource, action) ==
  IF action # UNDEFINED /\ action # ""
    THEN IF perms[resource].present
           THEN [perms EXCEPT ![resource].acts[action] = NoEntry]
           ELSE perms
    ELSE [perms EXCEPT ![resource] = NoResource]

\* the loop of setPermissions that applies only the first operation of the batch
RECURSIVE applyOperations_FirstOnly(_, _)
applyOperations_FirstOnly(perms, operations) ==
  IF operations = <<>> THEN perms
  ELSE LET operation == Head(operations) IN
         IF operation.type = "set"
           THEN assign(perms, operation.resource, operation.action, operation.data)
           ELSE remove(perms, operation.resource, operation.action)

\* the loop of setPermissions over the operations, in submission order
RECURSIVE applyOperations(_, _)
applyOperations(perms, operations) ==
  IF operations = <<>> THEN perms
  ELSE LET operation == Head(operations) IN
         applyOperations(
           IF operation.type = "set"
             THEN assign(perms, operation.resource, operation.action, operation.data)
             ELSE remove(perms, operation.resource, operation.action),
           Tail(operations))

\* new Role(data, repository)
Role(roleId, tenantId, name, perms) ==
  [roleId |-> roleId, tenantId |-> tenantId, name |-> name, permissions |-> perms]

\* role.update({ permissions }) that writes the permissions into the Role it was called on
update_InPlace(objects, this, perms) ==
  Append([objects EXCEPT ![this].permissions = perms],
         Role(objects[this].roleId, objects[this].tenantId, objects[this].name, perms))

\* role.update({ permissions }): a new Role instance, name ?? this.name, the rest copied
update(objects, this, perms) ==
  Append(objects, Role(objects[this].roleId, objects[this].tenantId, objects[this].name, perms))

\* new RolePermission(role, repository)
RolePermission(role, operations) == [role |-> role, operations |-> operations]

----------------------------------------------------------------------------
(* Auth and SQLiteAuth: key cache, generate, resolve *)

Instances == {"Auth", "SQLiteAuth"}
KeyKinds == {"secret", "pubkey"}

\* #secret and #pubkey are undefined until an import has completed; a key is named by the
\* import that produced it, 0 stands for undefined
NoKeys == [i \in Instances |-> [k \in KeyKinds |-> 0]]

\* get secret / get pubkey, the executor of the promise: when the field is undefined an import
\* is started and the promise resolves with its key, otherwise it resolves with the field
access(cache, started, instance, kind) ==
  IF cache[instance][kind] = 0
    THEN [imports |-> Append(started, [instance |-> instance, kind |-> kind, done |-> FALSE]),
          awaits |-> Len(started) + 1, key |-> 0]
    ELSE [imports |-> started, awaits |-> 0, key |-> cache[instance][kind]]

\* tokens: what jwtVerify and the session schema find in them
Token(signature, issuer, audience, expired, shape) ==
  [signature |-> signature, issuer |-> issuer, audience |-> audience, expired |-> expired,
   shape |-> shape]
ValidToken == Token(TRUE, TRUE, TRUE, FALSE, TRUE)
Tokens ==
  {ValidToken,
   Token(FALSE, TRUE, TRUE, FALSE, TRUE),
   Token(TRUE, FALSE, TRUE, FALSE, TRUE),
   Token(TRUE, TRUE, FALSE, FALSE, TRUE),
   Token(TRUE, TRUE, TRUE, TRUE, TRUE),
   Token(TRUE, TRUE, TRUE, FALSE, FALSE),
   Token(FALSE, TRUE, TRUE, TRUE, FALSE)}

ERR_JWS_SIGNATURE_VERIFICATION_FAILED == "ERR_JWS_SIGNATURE_VERIFICATION_FAILED"
ERR_JWT_CLAIM_VALIDATION_FAILED == "ERR_JWT_CLAIM_VALIDATION_FAILED"
ERR_JWT_EXPIRED == "ERR_JWT_EXPIRED"
AUTH_INTERNAL_ERROR == "AUTH_INTERNAL_ERROR"

\* jwtVerify(token, key, { issuer, audience }): the signature, then the claims iss, aud, exp;
\* each failure is a JOSEError with its code
jwtVerify(token) ==
  IF ~token.signature
    THEN [ok |-> FALSE, code |-> ERR_JWS_SIGNATURE_VERIFICATION_FAILED,
          message |-> "signature verification failed"]
  ELSE IF ~token.issuer
    THEN [ok |-> FALSE, code |-> ERR_JWT_CLAIM_VALIDATION_FAILED,
          message |-> "unexpected \"iss\" claim value"]
  ELSE IF ~token.audience
    THEN [ok |-> FALSE, code |-> ERR_JWT_CLAIM_VALIDATION_FAILED,
          message |-> "unexpected \"aud\" claim value"]
  ELSE IF token.expired
    THEN [ok |-> FALSE, code |-> ERR_JWT_EXPIRED,
          message |-> "\"exp\" claim timestamp check failed"]
  ELSE [ok |-> TRUE, code |-> "", message |-> ""]

\* results of a call: a value returned or an error thrown out of it, and the stage it ended in
Invalid(stage, code, message) ==
  [threw |-> FALSE, valid |-> FALSE, stage |-> stage, code |-> code, message |-> message]
Valid(stage) ==
  [threw |-> FALSE, valid |-> TRUE, stage |-> stage, code |-> "", message |-> ""]
Rejected(stage, code, message) ==
  [threw |-> TRUE, valid |-> FALSE, stage |-> stage, code |-> code, message |-> message]
Pending == [threw |-> FALSE, valid |-> FALSE, stage |-> "pending", code |-> "", message |-> ""]

\* Auth.resolve without its catch block: every error leaves the call
resolve_NoCatch(token, rolesThrow) ==
  LET verified == jwtVerify(token) IN
    IF ~verified.ok THEN Rejected("jwtVerify", verified.code, verified.message)
    ELSE IF ~token.shape THEN Rejected("parseAsync", "ZodError", "invalid session")
    ELSE IF rolesThrow THEN Rejected("getBySession", "Error", "roles provider failed")
    ELSE Valid("return")

\* Auth.resolve once the public key is there: verify, parse the session, load the roles;
\* a JOSEError is returned with its code, any other error as AUTH_INTERNAL_ERROR
resolve(token, rolesThrow) ==
  LET verified == jwtVerify(token) IN
    IF ~verified.ok THEN Invalid("jwtVerify", verified.code, verified.message)
    ELSE IF ~token.shape THEN Invalid("parseAsync", AUTH_INTERNAL_ERROR, "invalid session")
    ELSE IF rolesThrow THEN Invalid("getBySession", AUTH_INTERNAL_ERROR, "roles provider failed")
    ELSE Valid("return")

\* a resolve that loads the roles as soon as the token is verified, before the parse
getBySessionCalls_BeforeParse(token) ==
  IF jwtVerify(token).ok THEN <<token>> ELSE <<>>

\* the calls Auth.resolve makes to providers.roles.getBySession, each with the session it
\* passes (named by the token whose payload was parsed): one, after jwtVerify and
\* session.parseAsync have returned
getBySessionCalls(token) ==
  IF jwtVerify(token).ok /\ token.shape THEN <<token>> ELSE <<>>

\* the calls SQLiteAuth.resolve makes to roles.getRoles: one, after jwtVerify has returned
getRolesCalls(token) ==
  IF jwtVerify(token).ok THEN <<token>> ELSE <<>>

\* SQLiteAuth.resolve once the public key is there: verify, load the roles, new Auth;
\* there is no catch, the payload is not parsed against a schema
sqliteResolve(token, rolesThrow) ==
  LET verified == jwtVerify(token) IN
    IF ~verified.ok THEN Rejected("jwtVerify", verified.code, verified.message)
    ELSE IF rolesThrow THEN Rejected("getRoles", "Error", "roles provider failed")
    ELSE Valid("return")

----------------------------------------------------------------------------
(* Guard and Auth.check *)

GuardNames == {"tenant:related", "account:own"}

\* input schemas of the guards: z.object({ <key>: z.string() })
InputSchemas == {"tenantId", "accountId"}

\* check handlers: what the handler does with the parsed input
Handlers == {"tenantIsA", "accountIsA", "undefined", "throws", "rejects"}

NoGuard == [registered |-> FALSE, input |-> "", handler |-> ""]
Guard(input, handler) == [registered |-> TRUE, input |-> input, handler |-> handler]
NoGuards == [name \in GuardNames |-> NoGuard]

\* this.input.spa(input): safeParseAsync of z.object({ key: z.string() }); keys the schema
\* does not name are stripped from the parsed data
spa(schema, input) ==
  IF input.t = "object" /\ schema \in DOMAIN input.o /\ input.o[schema].t = "string"
    THEN [success |-> TRUE, data |-> Obj([k \in {schema} |-> input.o[k]])]
    ELSE [success |-> FALSE, data |-> Undefined]

\* results of check: the value the promise resolves with, or a rejection
Resolved(value, invoked) == [threw |-> FALSE, value |-> value, invoked |-> invoked]
Thrown(invoked) == [threw |-> TRUE, value |-> "undefined", invoked |-> invoked]

\* this.#checkHandler(parsed.data)
checkHandler(handler, data) ==
  IF handler = "throws" \/ handler = "rejects" THEN Thrown(TRUE)
  ELSE IF handler = "undefined" THEN Resolved("undefined", TRUE)
  ELSE IF handler = "tenantIsA"
    THEN Resolved(IF getProperty(data, "tenantId") = Str("tenant-a") THEN "true" ELSE "false", TRUE)
    ELSE Resolved(IF getProperty(data, "accountId") = Str("account-a") THEN "true" ELSE "false", TRUE)

\* Guard.check that hands the raw input to the handler without validating it
guardCheck_NoValidation(guard, input) == checkHandler(guard.handler, input)

\* Guard.check(input)
guardCheck(guard, input) ==
  LET parsed == spa(guard.input, input) IN
    IF parsed.success = FALSE THEN Resolved("false", FALSE)
    ELSE checkHandler(guard.handler, parsed.data)

\* Auth.check(name, input): this.#guards.get(name), false when there is none
authCheck(registry, name, input) ==
  IF name \notin DOMAIN registry \/ ~registry[name].registered THEN Resolved("false", FALSE)
  ELSE guardCheck(registry[name], input)

----------------------------------------------------------------------------
(* Specification of the Access evaluator over drawn schemas and role lists *)

Idle == [op |-> "idle"]

JohnDoe == Obj([k \in {"name", "email"} |->
                 IF k = "name" THEN Str("John Doe") ELSE Str("john.doe@fixture.none")])
JaneDoe == Obj([k \in {"name", "profile"} |->
                 IF k = "name" THEN Str("Jane Doe") ELSE Obj([j \in {"age"} |-> Str("42")])])
Records == {JohnDoe}

AssignmentLists ==
  UNION {[1..n -> RolePermissions] : n \in 0..MaxAssignments}

InitAccess ==
  /\ permissions \in Schemas
  /\ assignments \in AssignmentLists
  /\ roleRows = [id \in RoleIdSet |-> NoRoleRow]
  /\ entityRows = EmptyBag
  /\ out = Idle
  /\ heap = <<>> /\ batches = <<>> /\ calls = <<>>
  /\ keyCache = NoKeys /\ imports = <<>> /\ authCalls = <<>>
  /\ failed = {} /\ now = 0 /\ issued = <<>> /\ guards = NoGuards

CallHas ==
  \E r \in ResourceIds, a \in ActionIds, d \in DataValues :
    /\ out' = [op |-> "has", resourceId |-> r, actionId |-> a, data |-> d,
               result |-> has(permissions, assignments, r, a, d)]
    /\ UNCHANGED <<tokenVars, guardVars, authVars, roleVars, permissions, assignments, roleRows, entityRows>>

CallCheck ==
  \E r \in ResourceIds, a \in ActionIds, d \in DataValues :
    /\ out' = [op |-> "check", resourceId |-> r, actionId |-> a, data |-> d,
               result |-> check(permissions, assignments, r, a, d)]
    /\ UNCHANGED <<tokenVars, guardVars, authVars, roleVars, permissions, assignments, roleRows, entityRows>>

\* access.check(resourceId, actionId).filter(record), as the callers of check use it
CallCheckFilter ==
  \E r \in ResourceIds, a \in ActionIds, d \in DataValues, rec \in Records :
    /\ out' = [op |-> "check.filter", resourceId |-> r, actionId |-> a, data |-> d,
               record |-> rec,
               result |-> filter(check(permissions, assignments, r, a, d), rec)]
    /\ UNCHANGED <<tokenVars, guardVars, authVars, roleVars, permissions, assignments, roleRows, entityRows>>

NextAccess == CallHas \/ CallCheck \/ CallCheckFilter

SpecAccess == InitAccess /\ [][NextAccess]_vars

----------------------------------------------------------------------------
(* Properties of the Access evaluator *)

Called(op) == out.op = op
Entry(i) == RoleAction(assignments[i], out.resourceId, out.actionId)
Declared == SchemaAction(permissions, out.resourceId, out.actionId)
Roles == 1..Len(assignments)
DeclaresValidator == Declared.kind = "object" /\ Declared.hasValidator
Passes(i) ==
  /\ Entry(i).kind = "object" /\ Entry(i).hasConditions
  /\ validate(Declared.validate, out.data, Entry(i).conditions)
Range(seq) == {seq[i] : i \in 1..Len(seq)}

\* C1: a role whose entry for the pair is the bare value true makes has return true, whatever
\* the schema, the data and the other roles of the list are
C1_BareTrueGrants ==
  (Called("has") /\ \E i \in Roles : Entry(i).kind = "true") => out.result = TRUE

C1_Witness ==
  /\ Called("has") /\ Len(assignments) = 2
  /\ Entry(2).kind = "true" /\ Entry(1).kind = "object" /\ Entry(1).hasConditions
  /\ DeclaresValidator /\ out.data = UNDEFINED
  /\ out.result = TRUE

\* C2 as stated: for an action with a Validator, has is true if and only if the conditions of
\* some assignment satisfy validate(data, conditions)
C2_Original ==
  (Called("has") /\ DeclaresValidator) => (out.result = \E i \in Roles : Passes(i))

\* C2 amended: for an action with a Validator, has is true if and only if some assignment holds
\* the bare value true or the conditions of some assignment satisfy validate(data, conditions)
C2_ValidatorDecides ==
  (Called("has") /\ DeclaresValidator)
    => (out.result = \E i \in Roles : Entry(i).kind = "true" \/ Passes(i))

C2_Witness ==
  /\ Called("has") /\ DeclaresValidator /\ Len(assignments) = 2
  /\ \A i \in Roles : Entry(i).kind = "object" /\ Entry(i).hasConditions
  /\ Entry(1).conditions # Entry(2).conditions
  /\ out.data = Entry(2).conditions
  /\ out.result = TRUE

\* C3: has over a list is the OR of has over each single role of it: false for the empty list,
\* the same for the reversed list and for the list with every role twice
C3_OrOverRoles ==
  Called("has") =>
    /\ out.result = \E i \in Roles :
         has(permissions, <<assignments[i]>>, out.resourceId, out.actionId, out.data)
    /\ out.result = has(permissions, [i \in Roles |-> assignments[Len(assignments) + 1 - i]],
                        out.resourceId, out.actionId, out.data)
    /\ out.result = has(permissions, assignments \o assignments,
                        out.resourceId, out.actionId, out.data)
    /\ (assignments = <<>> \/ \A i \in Roles : Entry(i).kind = "undefined") => out.result = FALSE

C3_Witness ==
  /\ Called("has") /\ Len(assignments) = 2
  /\ Entry(1).kind = "undefined" /\ Entry(2).kind = "true"
  /\ out.result = TRUE

\* C4 as stated: for a resource or action the schema does not declare, has returns false and
\* check returns a Permission that is not granted, whatever the roles hold
C4_UndeclaredDenied ==
  /\ (Called("has") /\ Declared.kind = "undefined") => out.result = FALSE
  /\ (Called("check") /\ Declared.kind = "undefined") => out.result.granted = FALSE

C6_CheckFollowsHas ==
  Called("check") =>
    /\ out.result.granted = has(permissions, assignments, out.resourceId, out.actionId, out.data)
    /\ ~out.result.granted =>
         /\ out.result.hasMessage /\ ~out.result.hasAttributes
         /\ out.result.message = IF DeclaresValidator THEN Declared.error ELSE GENERIC_MESSAGE
    /\ out.result.granted =>
         LET merged == getActionFilter(permissions, assignments, out.resourceId, out.actionId) IN
           /\ ~out.result.hasMessage
           /\ out.result.hasAttributes = merged.defined
           /\ out.result.attributes = merged.filter

C6_Witness ==
  /\ Called("check") /\ DeclaresValidator /\ Len(assignments) = 2
  /\ \A i \in Roles : Entry(i).kind = "object" /\ Entry(i).hasConditions
  /\ ~out.result.granted /\ out.result.message = VALIDATOR_ERROR

\* C7: the attributes of a granted check are, as a set, the union of the filters of all
\* assignments that carry one; when none carries one they are the schema Filter unmodified,
\* and without a schema Filter no attributes are set
C7_UnionOfFilters ==
  (Called("check") /\ out.result.granted) =>
    LET carriers == {i \in Roles : Entry(i).kind = "object" /\ Entry(i).hasFilter} IN
      IF carriers # {}
        THEN /\ out.result.hasAttributes
             /\ Range(out.result.attributes) = UNION {Range(Entry(i).filter) : i \in carriers}
      ELSE IF Declared.kind = "object" /\ Declared.hasFilter
        THEN out.result.hasAttributes /\ out.result.attributes = Declared.filter
      ELSE ~out.result.hasAttributes

C7_Witness ==
  /\ Called("check") /\ out.result.granted /\ Len(assignments) = 2
  /\ Entry(1).kind = "object" /\ Entry(1).hasFilter /\ Entry(1).filter = <<"name", "email">>
  /\ Entry(2).kind = "object" /\ Entry(2).hasFilter /\ Entry(2).filter = <<"name">>
  /\ Range(out.result.attributes) = {"name", "email"}

\* the keys of a record that came out of Permission.filter
Kept(value) == DOMAIN value.o

\* C8 as stated: when roles A and B both grant the pair, every attribute that
\* check(...).filter keeps under [A] alone is also kept under [A, B]
C8_NeverNarrows ==
  (/\ Called("check.filter") /\ Len(assignments) = 2
   /\ \A i \in Roles :
        has(permissions, <<assignments[i]>>, out.resourceId, out.actionId, out.data))
    => Kept(filter(check(permissions, <<assignments[1]>>, out.resourceId, out.actionId, out.data),
                   out.record))
         \subseteq Kept(out.result)

----------------------------------------------------------------------------
(* Specification of the Permission value: constructed from any response, then used to filter *)

ProjectionFilters ==
  {<<>>, <<"name">>, <<"name", "email">>, <<"profile.age", "name">>, <<"phone">>}

Responses ==
  {[granted |-> g, hasFilter |-> FALSE, filter |-> <<>>, hasMessage |-> FALSE, message |-> ""] :
     g \in BOOLEAN}
    \cup {[granted |-> g, hasFilter |-> TRUE, filter |-> f, hasMessage |-> FALSE, message |-> ""] :
            g \in BOOLEAN, f \in ProjectionFilters}
    \cup {[granted |-> g, hasFilter |-> FALSE, filter |-> <<>>, hasMessage |-> TRUE, message |-> m] :
            g \in BOOLEAN, m \in {"", PERMISSION_DENIED_MESSAGE}}
    \cup {[granted |-> g, hasFilter |-> TRUE, filter |-> f, hasMessage |-> TRUE, message |-> m] :
            g \in BOOLEAN, f \in ProjectionFilters, m \in {"", PERMISSION_DENIED_MESSAGE}}

FilterInputs ==
  {JohnDoe, JaneDoe}
    \cup {Arr(items) : items \in UNION {[1..n -> {JohnDoe, JaneDoe}] : n \in 0..MaxRecords}}

InitPermission ==
  /\ permissions = [r \in ResourceIds |-> NoSchemaResource]
  /\ assignments = <<>>
  /\ roleRows = [id \in RoleIdSet |-> NoRoleRow]
  /\ entityRows = EmptyBag
  /\ out = Idle
  /\ heap = <<>> /\ batches = <<>> /\ calls = <<>>
  /\ keyCache = NoKeys /\ imports = <<>> /\ authCalls = <<>>
  /\ failed = {} /\ now = 0 /\ issued = <<>> /\ guards = NoGuards

NewPermission ==
  \E response \in Responses :
    /\ out' = [op |-> "new Permission", response |-> response, result |-> Permission(response)]
    /\ UNCHANGED <<tokenVars, guardVars, authVars, roleVars, permissions, assignments, roleRows, entityRows>>

\* permission.filter(data) on the Permission that was constructed last
CallFilter ==
  \E data \in FilterInputs :
    /\ out.op = "new Permission"
    /\ out' = [op |-> "filter", permission |-> out.result, data |-> data,
               result |-> filter(out.result, data)]
    /\ UNCHANGED <<tokenVars, guardVars, authVars, roleVars, permissions, assignments, roleRows, entityRows>>

NextPermission == NewPermission \/ CallFilter

SpecPermission == InitPermission /\ [][NextPermission]_vars

\* C10: on every Permission that is constructed, message is set only if granted is false,
\* attributes is set only if granted is true and a filter was supplied, and never both
C10_MessageXorAttributes ==
  Called("new Permission") =>
    /\ out.result.hasMessage => (~out.result.granted /\ out.response.hasMessage)
    /\ out.result.hasAttributes => (out.result.granted /\ out.response.hasFilter)
    /\ ~(out.result.hasMessage /\ out.result.hasAttributes)

C10_Witness ==
  /\ Called("new Permission")
  /\ out.response.granted /\ out.response.hasFilter /\ out.response.hasMessage
  /\ out.response.message = PERMISSION_DENIED_MESSAGE
  /\ out.result.hasAttributes /\ ~out.result.hasMessage

\* the value a record holds at a dot-path, read key by key
ValueAt(record, path) ==
  IF path = "profile.age"
    THEN IF "profile" \in DOMAIN record.o /\ record.o["profile"].t = "object"
              /\ "age" \in DOMAIN record.o["profile"].o
           THEN record.o["profile"].o["age"] ELSE Undefined
    ELSE IF path \in DOMAIN record.o THEN record.o[path] ELSE Undefined

\* projected is the projection of record on the attribute list
ProjectionOf(projected, record, attributes) ==
  /\ projected.t = "object"
  /\ DOMAIN projected.o = Range(attributes)
  /\ \A k \in Range(attributes) : projected.o[k] = ValueAt(record, k)

\* C11: Permission.filter(data) returns data unchanged when the Permission has no attributes;
\* otherwise a single record becomes a record whose key set is exactly the attribute list, each
\* key holding the value at that dot-path or undefined when the path is missing, and a sequence
\* becomes a sequence of the same length whose i-th element is the projection of the i-th input
C11_FilterProjects ==
  Called("filter") =>
    IF ~out.permission.hasAttributes THEN out.result = out.data
    ELSE IF out.data.t = "array"
      THEN /\ out.result.t = "array"
           /\ Len(out.result.items) = Len(out.data.items)
           /\ \A i \in 1..Len(out.data.items) :
                ProjectionOf(out.result.items[i], out.data.items[i], out.permission.attributes)
      ELSE ProjectionOf(out.result, out.data, out.permission.attributes)

C11_Witness ==
  /\ Called("filter")
  /\ out.permission.hasAttributes /\ out.permission.attributes = <<"profile.age", "name">>
  /\ out.data = Arr(<<JohnDoe, JaneDoe>>)
  /\ out.result.items[1].o["profile.age"] = Undefined
  /\ out.result.items[2].o["profile.age"] = Str("42")

----------------------------------------------------------------------------
(* Specification of the role repository *)

StoreSchema ==
  [r \in ResourceIds |->
    [present |-> TRUE,
     acts |-> [a \in ActionIds |-> IF a = "read" THEN ObjectAction(FALSE, TRUE, <<"name">>) ELSE TrueAction]]]

InitStore ==
  /\ permissions = StoreSchema
  /\ assignments = <<>>
  /\ roleRows = [id \in RoleIdSet |-> NoRoleRow]
  /\ entityRows = EmptyBag
  /\ out = Idle
  /\ heap = <<>> /\ batches = <<>> /\ calls = <<>>
  /\ keyCache = NoKeys /\ imports = <<>> /\ authCalls = <<>>
  /\ failed = {} /\ now = 0 /\ issued = <<>> /\ guards = NoGuards

RoleCount == Cardinality({id \in RoleIdSet : roleRows[id].exists})

\* roles.addRole(payload): nanoid() hands out an id that is not in use
AddRole ==
  \E t \in TenantIds, payload \in RolePayloads :
    /\ RoleCount < Len(RoleIds)
    /\ LET roleId == RoleIds[RoleCount + 1] IN
         /\ roleRows' = [roleRows EXCEPT ![roleId] =
                           [exists |-> TRUE, tenantId |-> t, permissions |-> payload]]
         /\ out' = [op |-> "addRole"]
    /\ UNCHANGED <<tokenVars, guardVars, authVars, roleVars, permissions, assignments, entityRows>>

\* role.addEntity(entityId): repository.addEntity(roleId, entityId) without assignments
AddEntity ==
  \E roleId \in RoleIdSet, entityId \in EntityIds :
    /\ roleRows[roleId].exists
    /\ BagCardinality(entityRows) < MaxEntityRows
    /\ entityRows' = entityRows (+) SetToBag({
         [roleId |-> roleId, entityId |-> entityId,
          conditions |-> NullColumn(NoConditions), filters |-> NullColumn(NoFilters)]})
    /\ out' = [op |-> "addEntity"]
    /\ UNCHANGED <<tokenVars, guardVars, authVars, roleVars, permissions, assignments, roleRows>>

SetConditions ==
  \E roleId \in RoleIdSet, entityId \in EntityIds, c \in ConditionOverrides :
    /\ EntityRowsOf(entityRows, roleId, entityId) # {}
    /\ entityRows' = setColumn(entityRows, roleId, entityId, "conditions", c)
    /\ out' = [op |-> "setConditions"]
    /\ UNCHANGED <<tokenVars, guardVars, authVars, roleVars, permissions, assignments, roleRows>>

SetFilters ==
  \E roleId \in RoleIdSet, entityId \in EntityIds, f \in FilterOverrides :
    /\ EntityRowsOf(entityRows, roleId, entityId) # {}
    /\ entityRows' = setColumn(entityRows, roleId, entityId, "filters", f)
    /\ out' = [op |-> "setFilters"]
    /\ UNCHANGED <<tokenVars, guardVars, authVars, roleVars, permissions, assignments, roleRows>>

DelEntity ==
  \E roleId \in RoleIdSet, entityId \in EntityIds :
    /\ EntityRowsOf(entityRows, roleId, entityId) # {}
    /\ entityRows' = deleteRows(entityRows, roleId, entityId)
    /\ out' = [op |-> "delEntity"]
    /\ UNCHANGED <<tokenVars, guardVars, authVars, roleVars, permissions, assignments, roleRows>>

GetRole ==
  \E roleId \in RoleIdSet :
    /\ out' = [op |-> "getRole", roleId |-> roleId, result |-> getRole(roleRows, roleId)]
    /\ UNCHANGED <<tokenVars, guardVars, authVars, roleVars, permissions, assignments, roleRows, entityRows>>

GetRoles ==
  \E t \in TenantIds, e \in EntityIds :
    \E joined \in Joined(roleRows, entityRows, {t}, e), first \in FirstRows(entityRows, e) :
      /\ out' = [op |-> "getRoles", tenantId |-> t, entityId |-> e,
                 result |-> getRoles(roleRows, first, joined)]
      /\ UNCHANGED <<tokenVars, guardVars, authVars, roleVars, permissions, assignments, roleRows, entityRows>>

GetRolesByEntityId ==
  \E e \in EntityIds :
    \E joined \in Joined(roleRows, entityRows, TenantIds, e), first \in FirstRows(entityRows, e) :
      /\ out' = [op |-> "getRolesByEntityId", entityId |-> e,
                 result |-> getRolesByEntityId(roleRows, first, joined)]
      /\ UNCHANGED <<tokenVars, guardVars, authVars, roleVars, permissions, assignments, roleRows, entityRows>>

NextStore ==
  \/ AddRole \/ AddEntity \/ SetConditions \/ SetFilters \/ DelEntity
  \/ GetRole \/ GetRoles \/ GetRolesByEntityId

SpecStore == InitStore /\ [][NextStore]_vars

----------------------------------------------------------------------------
(* Properties of the role repository *)

\* the entry a role of the entity is to carry: the stored entry with the row's overrides in
\* place of its conditions and filter, for the listed resource/actions only
Carries(entry, stored, row, p) ==
  /\ IF row.conditions.value[p] # UNDEFINED
       THEN entry.hasConditions /\ entry.conditions = row.conditions.value[p]
       ELSE entry.hasConditions = stored.hasConditions /\ entry.conditions = stored.conditions
  /\ IF row.filters.value[p].defined
       THEN entry.hasFilter /\ entry.filter = row.filters.value[p].filter
       ELSE entry.hasFilter = stored.hasFilter /\ entry.filter = stored.filter
  /\ (row.conditions.value[p] = UNDEFINED /\ ~row.filters.value[p].defined) => entry = stored

C9_RolesCarryOverride ==
  (Called("getRoles") \/ Called("getRolesByEntityId")) =>
    /\ ~out.result.threw
    /\ \A k \in 1..Len(out.result.roles) :
         LET role == out.result.roles[k] IN
           \E row \in EntityRowsOf(entityRows, role.roleId, out.entityId) :
             \A p \in Pairs :
               Carries(RoleAction(role.permissions, p[1], p[2]),
                       RoleAction(roleRows[role.roleId].permissions, p[1], p[2]), row, p)

\* what getRolesByEntityId can return for an entity
RolesOfEntity(roles, rows, entityId) ==
  {getRolesByEntityId(roles, first, joined) :
     first \in FirstRows(rows, entityId), joined \in Joined(roles, rows, TenantIds, entityId)}

C9_OthersUnchanged ==
  (out'.op = "setFilters" \/ out'.op = "setConditions") =>
    /\ roleRows' = roleRows
    /\ \E e \in EntityIds : \A other \in EntityIds \ {e} :
         RolesOfEntity(roleRows', entityRows', other) = RolesOfEntity(roleRows, entityRows, other)

\* C9 as stated: after setFilters or setConditions on the assignment of an entity to a role,
\* the roles returned for the entity carry the override in place of the role-level filter or
\* conditions for exactly the listed resource/actions, and the roles returned for every other
\* entity and the stored role are unchanged
C9_OverridePrecedence == []C9_RolesCarryOverride /\ [][C9_OthersUnchanged]_vars

----------------------------------------------------------------------------
(* Specification of Role handles: grant and deny build batches, commit runs setPermissions *)

\* the data a grant can carry, NoEntry standing for a grant without data: an action the schema
\* declares as true takes none, an action declared with an object can take its data
GrantData(resource, action) ==
  IF SchemaAction(StoreSchema, resource, action).kind = "object"
    THEN {NoEntry, FilterEntry(<<"name">>)}
    ELSE {NoEntry}

RECURSIVE TotalOperations(_)
TotalOperations(bs) ==
  IF bs = <<>> THEN 0 ELSE Len(Head(bs).operations) + TotalOperations(Tail(bs))

\* the application holds one Role; its row is stored, or the Role was constructed for a
\* roleId that has no row
InitRole ==
  /\ permissions = StoreSchema
  /\ assignments = <<>>
  /\ entityRows = EmptyBag
  /\ out = Idle
  /\ \E payload \in RolePayloads, stored \in BOOLEAN :
       /\ roleRows = [id \in RoleIdSet |->
                        IF stored /\ id = RoleIds[1]
                          THEN [exists |-> TRUE, tenantId |-> "tenant-a", permissions |-> payload]
                          ELSE NoRoleRow]
       /\ heap = <<Role(RoleIds[1], "tenant-a", "moderator", payload)>>
  /\ batches = <<>>
  /\ calls = <<>>
  /\ keyCache = NoKeys /\ imports = <<>> /\ authCalls = <<>>
  /\ failed = {} /\ now = 0 /\ issued = <<>> /\ guards = NoGuards

\* role.grant(resource, action, data): the getter makes a new RolePermission and pushes on it
RoleGrant ==
  \E this \in 1..Len(heap), r \in ResourceIds, a \in ActionIds : \E d \in GrantData(r, a) :
    /\ TotalOperations(batches) < MaxOperations
    /\ batches' = Append(batches, RolePermission(this, <<SetOperation(r, a, d)>>))
    /\ UNCHANGED <<tokenVars, guardVars, authVars, permissions, assignments, roleRows, entityRows, out, heap, calls>>

\* role.deny(resource, action?)
RoleDeny ==
  \E this \in 1..Len(heap), r \in ResourceIds, a \in ActionIds \cup {UNDEFINED} :
    /\ TotalOperations(batches) < MaxOperations
    /\ batches' = Append(batches, RolePermission(this, <<UnsetOperation(r, a)>>))
    /\ UNCHANGED <<tokenVars, guardVars, authVars, permissions, assignments, roleRows, entityRows, out, heap, calls>>

\* batch.grant(resource, action, data), chained on the RolePermission a grant or deny returned
Grant ==
  \E b \in 1..Len(batches), r \in ResourceIds, a \in ActionIds : \E d \in GrantData(r, a) :
    /\ TotalOperations(batches) < MaxOperations
    /\ batches' = [batches EXCEPT ![b].operations = Append(@, SetOperation(r, a, d))]
    /\ UNCHANGED <<tokenVars, guardVars, authVars, permissions, assignments, roleRows, entityRows, out, heap, calls>>

\* batch.deny(resource, action?)
Deny ==
  \E b \in 1..Len(batches), r \in ResourceIds, a \in ActionIds \cup {UNDEFINED} :
    /\ TotalOperations(batches) < MaxOperations
    /\ batches' = [batches EXCEPT ![b].operations = Append(@, UnsetOperation(r, a))]
    /\ UNCHANGED <<tokenVars, guardVars, authVars, permissions, assignments, roleRows, entityRows, out, heap, calls>>

\* batch.commit() up to the first await: setPermissions(roleId, operations) has issued getRole
Commit ==
  \E b \in 1..Len(batches) :
    /\ Len(calls) < MaxCommits
    /\ LET roleId == heap[batches[b].role].roleId IN
         calls' = Append(calls, [batch |-> b, roleId |-> roleId, pc |-> "getRole",
                                 role |-> getRole(roleRows, roleId), operations |-> <<>>,
                                 result |-> 0])
    /\ UNCHANGED <<tokenVars, guardVars, authVars, permissions, assignments, roleRows, entityRows, out, heap, batches>>

\* setPermissions that goes on with empty permissions when the role was not found
Resume_NoExistenceCheck ==
  \E c \in 1..Len(calls) :
    /\ calls[c].pc = "getRole"
    /\ LET batch == batches[calls[c].batch]
           perms == applyOperations(calls[c].role.role.permissions, batch.operations)
       IN /\ roleRows' = IF roleRows[calls[c].roleId].exists
                           THEN [roleRows EXCEPT ![calls[c].roleId].permissions = perms]
                           ELSE roleRows
          /\ heap' = update(heap, batch.role, perms)
          /\ calls' = [calls EXCEPT ![c].pc = "resolved", ![c].operations = batch.operations,
                                    ![c].result = Len(heap) + 1]
          /\ out' = [op |-> "setPermissions", call |-> c, threw |-> FALSE]
    /\ UNCHANGED <<tokenVars, guardVars, authVars, permissions, assignments, entityRows, batches>>

\* the rest of setPermissions and of commit: throw when the role was not found, otherwise
\* apply the operations to the permissions that were read, write them to the row and
\* return role.update({ permissions })
Resume ==
  \E c \in 1..Len(calls) :
    /\ calls[c].pc = "getRole"
    /\ IF ~calls[c].role.defined
         THEN /\ calls' = [calls EXCEPT ![c].pc = "rejected"]
              /\ out' = [op |-> "setPermissions", call |-> c, threw |-> TRUE]
              /\ UNCHANGED <<tokenVars, guardVars, authVars, roleRows, heap>>
         ELSE LET batch == batches[calls[c].batch]
                  perms == applyOperations(calls[c].role.role.permissions, batch.operations)
              IN /\ roleRows' = IF roleRows[calls[c].roleId].exists
                                  THEN [roleRows EXCEPT ![calls[c].roleId].permissions = perms]
                                  ELSE roleRows
                 /\ heap' = update(heap, batch.role, perms)
                 /\ calls' = [calls EXCEPT ![c].pc = "resolved", ![c].operations = batch.operations,
                                           ![c].result = Len(heap) + 1]
                 /\ out' = [op |-> "setPermissions", call |-> c, threw |-> FALSE]
    /\ UNCHANGED <<tokenVars, guardVars, authVars, permissions, assignments, entityRows, batches>>

NextRole == RoleGrant \/ RoleDeny \/ Grant \/ Deny \/ Commit \/ Resume

SpecRole == InitRole /\ [][NextRole]_vars

----------------------------------------------------------------------------
(* Properties of Role handles and setPermissions *)

\* call c settles in this step
Resolves(c) == calls[c].pc = "getRole" /\ calls'[c].pc = "resolved"
Rejects(c) == calls[c].pc = "getRole" /\ calls'[c].pc = "rejected"

\* the row has not been written since call c read it: c does not overlap a commit that wrote
Undisturbed(c) == calls[c].role = getRole(roleRows, calls[c].roleId)

\* the entry an operation leaves at resource/action, when it touches that pair
Touches(operation, p) ==
  /\ operation.resource = p[1]
  /\ operation.action = p[2] \/ (operation.type = "unset" /\ operation.action = UNDEFINED)
Leaves(operation) ==
  IF operation.type = "unset" THEN NoEntry
  ELSE IF operation.data = NoEntry THEN TrueEntry ELSE operation.data

\* the entry at a pair after the operations, in submission order: what the last operation
\* that touches the pair leaves, the entry before when none does
EntryAfter(before, operations, p) ==
  LET touching == {i \in 1..Len(operations) : Touches(operations[i], p)} IN
    IF touching = {} THEN RoleAction(before, p[1], p[2])
    ELSE Leaves(operations[CHOOSE i \in touching : \A j \in touching : j <= i])

\* whether the resource has an entry after the operations
PresentAfter(before, operations, r) ==
  LET drops == {i \in 1..Len(operations) :
                  operations[i].type = "unset" /\ operations[i].resource = r
                    /\ operations[i].action = UNDEFINED}
      sets == {i \in 1..Len(operations) : operations[i].type = "set" /\ operations[i].resource = r}
  IN IF drops = {} THEN before[r].present \/ sets # {}
     ELSE \E i \in sets : \A j \in drops : j < i

\* C12: for an existing role, once the commit of grant(x, a) completes getRole has true or the
\* supplied data at x/a, once the commit of a later deny(x, a) completes getRole has no entry
\* at x/a, and every other entry of the role is the same before and after each commit
C12_Step ==
  \A c \in 1..Len(calls) :
    (Resolves(c) /\ Undisturbed(c) /\ Len(batches[calls[c].batch].operations) = 1) =>
      LET operation == batches[calls[c].batch].operations[1]
          before == getRole(roleRows, calls[c].roleId).role.permissions
          after == getRole(roleRows', calls[c].roleId)
      IN operation.action # UNDEFINED =>
           /\ after.defined
           /\ RoleAction(after.role.permissions, operation.resource, operation.action)
                = IF operation.type = "unset" THEN NoEntry
                  ELSE IF operation.data = NoEntry THEN TrueEntry ELSE operation.data
           /\ \A p \in Pairs \ {<<operation.resource, operation.action>>} :
                RoleAction(after.role.permissions, p[1], p[2]) = RoleAction(before, p[1], p[2])

C12_GrantDenyRoundTrip == [][C12_Step]_vars

\* a grant of users/update was committed, then a deny of it, and the entry is gone again
C12_Witness ==
  /\ Len(calls) = 2 /\ calls[1].pc = "resolved" /\ calls[2].pc = "resolved"
  /\ calls[1].operations = <<SetOperation("users", "update", NoEntry)>>
  /\ calls[2].operations = <<UnsetOperation("users", "update")>>
  /\ ~RoleAction(calls[1].role.role.permissions, "users", "update").kind = "true"
  /\ RoleAction(calls[2].role.role.permissions, "users", "update") = TrueEntry
  /\ RoleAction(getRole(roleRows, calls[2].roleId).role.permissions, "users", "update") = NoEntry
  /\ RoleAction(getRole(roleRows, calls[2].roleId).role.permissions, "users", "read")
       = RoleAction(calls[1].role.role.permissions, "users", "read")

\* C13: the permissions setPermissions stores are the left-to-right fold of the operations over
\* the stored permissions: set assigns the data or true, unset with an action removes only that
\* action, unset without one removes the entry of the resource; a later set on a pair
\* overwrites an earlier one, grant-then-deny leaves the action absent, deny-then-grant present
C13_Step ==
  \A c \in 1..Len(calls) :
    (Resolves(c) /\ Undisturbed(c)) =>
      LET operations == batches[calls[c].batch].operations
          before == roleRows[calls[c].roleId].permissions
          after == roleRows'[calls[c].roleId].permissions
      IN /\ \A p \in Pairs : RoleAction(after, p[1], p[2]) = EntryAfter(before, operations, p)
         /\ \A r \in ResourceIds : after[r].present = PresentAfter(before, operations, r)

C13_FoldInOrder == [][C13_Step]_vars

\* one batch granted users/read with data and then denied it: the action is absent
C13_Witness ==
  \E c \in 1..Len(calls) :
    /\ calls[c].pc = "resolved"
    /\ calls[c].operations = <<SetOperation("users", "read", FilterEntry(<<"name">>)),
                               UnsetOperation("users", "read")>>
    /\ RoleAction(calls[c].role.role.permissions, "users", "read").kind = "object"
    /\ RoleAction(roleRows[calls[c].roleId].permissions, "users", "read") = NoEntry
    /\ RoleAction(roleRows[calls[c].roleId].permissions, "users", "update")
         = RoleAction(calls[c].role.role.permissions, "users", "update")

\* C14: grant and deny change neither the stored role nor the Role they were called on; only
\* commit writes to storage; commit returns a new Role instance with the updated permissions
\* while roleId, tenantId, name and permissions of the Role it was called on stay as they were
C14_Step ==
  /\ batches' # batches => (roleRows' = roleRows /\ heap' = heap)
  /\ roleRows' # roleRows => \E c \in 1..Len(calls) : Resolves(c)
  /\ \A i \in 1..Len(heap) : i \in 1..Len(heap') /\ heap'[i] = heap[i]
  /\ \A c \in 1..Len(calls) :
       Resolves(c) =>
         LET this == heap[batches[calls[c].batch].role]
             returned == heap'[calls'[c].result]
         IN /\ calls'[c].result = Len(heap) + 1 /\ Len(heap') = Len(heap) + 1
            /\ returned.permissions = roleRows'[calls[c].roleId].permissions
            /\ returned.roleId = this.roleId /\ returned.tenantId = this.tenantId
            /\ returned.name = this.name

C14_CommitReplaces == [][C14_Step]_vars

\* a commit returned a new Role whose permissions differ from those of the Role it was called on
C14_Witness ==
  \E c \in 1..Len(calls) :
    /\ calls[c].pc = "resolved"
    /\ calls[c].result # batches[calls[c].batch].role
    /\ heap[calls[c].result].permissions # heap[batches[calls[c].batch].role].permissions
    /\ heap[calls[c].result].permissions = roleRows[calls[c].roleId].permissions

\* C15: setPermissions, and so commit, on a roleId that has no row fails with a thrown error
\* and leaves the storage unchanged: no role row is created or modified
C15_Step ==
  \A c \in 1..Len(calls) :
    (calls[c].pc = "getRole" /\ calls'[c].pc # "getRole" /\ ~roleRows[calls[c].roleId].exists) =>
      /\ Rejects(c)
      /\ out'.op = "setPermissions" /\ out'.call = c /\ out'.threw
      /\ roleRows' = roleRows
      /\ heap' = heap

C15_MissingRoleThrows == [][C15_Step]_vars

\* a commit with operations was rejected and no role is stored
C15_Witness ==
  /\ Called("setPermissions") /\ out.threw
  /\ calls[out.call].pc = "rejected"
  /\ batches[calls[out.call].batch].operations # <<>>
  /\ \A id \in RoleIdSet : roleRows[id] = NoRoleRow

\* the stored entries are those of running the two batches one after the other
InOrder(first, second, before, stored) ==
  \A p \in Pairs :
    RoleAction(stored, p[1], p[2]) = EntryAfter(before, first \o second, p)

\* C16: setPermissions is atomic per role: when two commits on one role run concurrently, the
\* read, the application and the write of one are not interleaved with those of the other, so
\* after both completed the stored permissions reflect the operations of both batches
C16_AtomicPerRole ==
  (/\ Len(calls) = 2
   /\ calls[1].pc = "resolved" /\ calls[2].pc = "resolved"
   /\ calls[1].roleId = calls[2].roleId) =>
    LET before == calls[1].role.role.permissions
        stored == roleRows[calls[1].roleId].permissions
    IN \/ InOrder(calls[1].operations, calls[2].operations, before, stored)
       \/ InOrder(calls[2].operations, calls[1].operations, before, stored)

----------------------------------------------------------------------------
(* Specification of Auth and SQLiteAuth: concurrent generate and resolve calls *)

InitAuth ==
  /\ permissions = StoreSchema
  /\ assignments = <<>>
  /\ roleRows = [id \in RoleIdSet |-> NoRoleRow]
  /\ entityRows = EmptyBag
  /\ out = Idle
  /\ heap = <<>> /\ batches = <<>> /\ calls = <<>>
  /\ keyCache = NoKeys /\ imports = <<>> /\ authCalls = <<>>
  /\ failed = {} /\ now = 0 /\ issued = <<>> /\ guards = NoGuards

\* a call up to its first await: the key getter has run
Started(instance, op, token, kind) ==
  LET got == access(keyCache, imports, instance, kind) IN
    /\ Len(authCalls) < MaxAuthCalls
    /\ imports' = got.imports
    /\ authCalls' = Append(authCalls,
         [instance |-> instance, op |-> op, token |-> token, awaits |-> got.awaits,
          key |-> got.key, pc |-> "key", result |-> Pending, lookups |-> <<>>])
    /\ UNCHANGED <<tokenVars, guardVars, permissions, assignments, roleRows, entityRows, out, roleVars, keyCache>>

\* generate(session, expiration): await this.secret
Generate ==
  \E instance \in Instances, expired \in BOOLEAN :
    Started(instance, "generate", Token(TRUE, TRUE, TRUE, expired, TRUE), "secret")

\* resolve(token): await this.pubkey
Resolve ==
  \E instance \in Instances, token \in Tokens :
    Started(instance, "resolve", token, "pubkey")

\* importPKCS8 / importSPKI completes: the field is assigned, the promise of its getter resolves
ImportDone ==
  \E i \in 1..Len(imports) :
    /\ ~imports[i].done
    /\ i \notin failed
    /\ imports' = [imports EXCEPT ![i].done = TRUE]
    /\ keyCache' = [keyCache EXCEPT ![imports[i].instance][imports[i].kind] = i]
    /\ UNCHANGED <<tokenVars, guardVars, permissions, assignments, roleRows, entityRows, out, roleVars, authCalls>>

\* the call goes on with the key its getter resolved with, and settles
Continue ==
  \E c \in 1..Len(authCalls), rolesThrow \in BOOLEAN :
    /\ authCalls[c].pc = "key"
    /\ IF authCalls[c].awaits = 0 THEN TRUE ELSE imports[authCalls[c].awaits].done
    /\ LET call == authCalls[c]
           key == IF call.awaits = 0 THEN call.key ELSE call.awaits
           result == IF call.op = "generate" THEN Valid("sign")
                     ELSE IF call.instance = "Auth" THEN resolve(call.token, rolesThrow)
                     ELSE sqliteResolve(call.token, rolesThrow)
           lookups == IF call.op = "generate" THEN <<>>
                      ELSE IF call.instance = "Auth" THEN getBySessionCalls(call.token)
                      ELSE getRolesCalls(call.token)
       IN authCalls' = [authCalls EXCEPT ![c].pc = "settled", ![c].key = key, ![c].result = result,
                                         ![c].lookups = lookups]
    /\ UNCHANGED <<tokenVars, guardVars, permissions, assignments, roleRows, entityRows, out, roleVars, keyCache, imports>>

NextAuth == Generate \/ Resolve \/ ImportDone \/ Continue

SpecAuth == InitAuth /\ [][NextAuth]_vars

\* importPKCS8 / importSPKI rejects (a malformed key): the promise of .then rejects, nothing
\* handles it, and the resolve function of the getter's promise is never called
ImportFails ==
  \E i \in 1..Len(imports) :
    /\ ~imports[i].done
    /\ i \notin failed
    /\ failed' = failed \cup {i}
    /\ UNCHANGED <<permissions, assignments, roleRows, entityRows, out, roleVars, authVars,
                   guardVars, now, issued>>

NextKeys == Generate \/ Resolve \/ ImportDone \/ ImportFails \/ Continue

\* the event loop runs every continuation that is ready: an import that is under way
\* completes or fails, a call whose key promise has resolved goes on
SpecKeys ==
  /\ InitAuth /\ [][NextKeys]_vars
  /\ WF_vars(ImportDone) /\ WF_vars(ImportFails) /\ WF_vars(Continue)

----------------------------------------------------------------------------
(* Properties of Auth and SQLiteAuth *)

Settled(c) == authCalls[c].pc = "settled"
ResolveOf(instance, c) ==
  Settled(c) /\ authCalls[c].instance = instance /\ authCalls[c].op = "resolve"
ImportsOf(instance, kind) ==
  {i \in 1..Len(imports) : imports[i].instance = instance /\ imports[i].kind = kind}

\* C17: the private key and the public key are each imported at most once per instance: under
\* concurrent first access exactly one import is started and all callers receive that key, and
\* once the key is cached no later access starts another import or replaces it
C17_SingleImport ==
  /\ \A instance \in Instances, kind \in KeyKinds : Cardinality(ImportsOf(instance, kind)) <= 1
  /\ \A c, d \in 1..Len(authCalls) :
       (/\ Settled(c) /\ Settled(d)
        /\ authCalls[c].instance = authCalls[d].instance
        /\ authCalls[c].op = authCalls[d].op) => authCalls[c].key = authCalls[d].key

\* the token passes verification of signature, issuer, audience and expiry
Verifies(token) == token.signature /\ token.issuer /\ token.audience /\ ~token.expired

\* C18: Auth.resolve never throws or rejects: a failure of signature, issuer, audience or
\* expiry verification, claims that do not match the session shape and an error of the roles
\* provider each give a result with valid = false, a code and a message; valid = true is
\* returned only when verification, session parsing and role loading all succeeded
C18_ResolveNeverThrows ==
  \A c \in 1..Len(authCalls) :
    ResolveOf("Auth", c) =>
      LET call == authCalls[c] IN
        /\ ~call.result.threw
        /\ call.result.valid =>
             (Verifies(call.token) /\ call.token.shape /\ call.result.stage = "return")
        /\ ~call.result.valid => (call.result.code # "" /\ call.result.message # "")
        /\ (~Verifies(call.token) \/ ~call.token.shape \/ call.result.stage = "getBySession")
             => ~call.result.valid

\* one resolve failed in the roles provider, another on a token with a bad signature
C18_Witness ==
  \E c, d \in 1..Len(authCalls) :
    /\ ResolveOf("Auth", c) /\ ResolveOf("Auth", d)
    /\ authCalls[c].token = ValidToken /\ authCalls[c].result.stage = "getBySession"
    /\ ~authCalls[c].result.valid /\ ~authCalls[c].result.threw
    /\ ~authCalls[d].token.signature
    /\ authCalls[d].result = Invalid("jwtVerify", ERR_JWS_SIGNATURE_VERIFICATION_FAILED,
                                     "signature verification failed")

\* C19: SQLiteAuth.resolve returns a typed failure result instead of throwing when the token
\* fails verification: no token failure is thrown across its resolution boundary
C19_SQLiteResolveReturnsFailure ==
  \A c \in 1..Len(authCalls) :
    (ResolveOf("SQLiteAuth", c) /\ ~Verifies(authCalls[c].token)) =>
      (~authCalls[c].result.threw /\ ~authCalls[c].result.valid)

\* the failure class of a settled Auth.resolve, from what went wrong
FailureClass(call) ==
  IF ~call.token.signature THEN "invalid signature"
  ELSE IF ~call.token.issuer \/ ~call.token.audience THEN "claim mismatch"
  ELSE IF call.token.expired THEN "expired"
  ELSE IF ~call.token.shape THEN "shape mismatch"
  ELSE IF call.result.stage = "getBySession" THEN "internal error"
  ELSE "none"

\* C20: the code of a failed Auth.resolve distinguishes expired token, invalid signature,
\* session-shape mismatch and internal error: failures of different classes never carry the
\* same code
C20_CodesDistinguishClasses ==
  \A c, d \in 1..Len(authCalls) :
    (/\ ResolveOf("Auth", c) /\ ResolveOf("Auth", d)
     /\ {FailureClass(authCalls[c]), FailureClass(authCalls[d])}
          \subseteq {"expired", "invalid signature", "shape mismatch", "internal error"}
     /\ FailureClass(authCalls[c]) # FailureClass(authCalls[d]))
      => authCalls[c].result.code # authCalls[d].result.code

----------------------------------------------------------------------------
(* Specification of the token round trip: generate, the clock, resolve *)

Sessions == {"abc", "xyz"}

\* the expiration argument of generate: a time span as a string, or the claim as a number
Expirations ==
  {[kind |-> "span", value |-> v] : v \in {1, 2}}
    \cup {[kind |-> "number", value |-> v] : v \in {0, 2}}

\* new SignJWT(session).setIssuedAt().setIssuer().setAudience().setExpirationTime(expiration):
\* a span is added to the current time, a number is the claim itself
SignJWT(session, expiration, time) ==
  [claims |-> session, iat |-> time, iss |-> "issuer", aud |-> "audience",
   exp |-> IF expiration.kind = "span" THEN time + expiration.value ELSE expiration.value]

\* the expiry check of jwtVerify that never finds a token expired
Expired_Never(exp, time) == FALSE

\* the expiry check of jwtVerify: the exp claim is not after the current time
Expired(exp, time) == exp <= time

\* session.parseAsync(payload): the registered claims are stripped, the session claims kept
parseAsync(payload) == payload.claims

InitToken ==
  /\ permissions = StoreSchema
  /\ assignments = <<>>
  /\ roleRows = [id \in RoleIdSet |-> NoRoleRow]
  /\ entityRows = EmptyBag
  /\ out = Idle
  /\ heap = <<>> /\ batches = <<>> /\ calls = <<>>
  /\ keyCache = NoKeys /\ imports = <<>> /\ authCalls = <<>>
  /\ failed = {} /\ now = 0 /\ issued = <<>> /\ guards = NoGuards

Tick ==
  /\ now < MaxTime
  /\ now' = now + 1
  /\ UNCHANGED <<permissions, assignments, roleRows, entityRows, out, roleVars, authVars,
                 guardVars, failed, issued>>

\* auth.generate(session, expiration)
GenerateToken ==
  \E session \in Sessions, expiration \in Expirations :
    /\ Len(issued) < MaxTokens
    /\ issued' = Append(issued, [payload |-> SignJWT(session, expiration, now),
                                  returnedExpired |-> FALSE])
    /\ out' = [op |-> "generate", token |-> Len(issued) + 1]
    /\ UNCHANGED <<permissions, assignments, roleRows, entityRows, roleVars, authVars,
                   guardVars, failed, now>>

\* auth.resolve(token) of a token this instance signed: signature, issuer and audience are
\* its own, expiry is read off the clock, the payload is parsed against the session schema
ResolveToken ==
  \E t \in 1..Len(issued), rolesThrow \in BOOLEAN :
    LET payload == issued[t].payload
        result == resolve(Token(TRUE, TRUE, TRUE, Expired(payload.exp, now), TRUE), rolesThrow)
    IN /\ out' = [op |-> "resolve", token |-> t, at |-> now, result |-> result,
                   session |-> IF result.valid THEN parseAsync(payload) ELSE UNDEFINED]
       /\ issued' = [issued EXCEPT ![t].returnedExpired = @ \/ result.code = ERR_JWT_EXPIRED]
       /\ UNCHANGED <<permissions, assignments, roleRows, entityRows, roleVars, authVars,
                      guardVars, failed, now>>

NextToken == Tick \/ GenerateToken \/ ResolveToken

SpecToken == InitToken /\ [][NextToken]_vars

----------------------------------------------------------------------------
(* Specification of guards: a registry built at construction, then Auth.check calls *)

Registries ==
  [GuardNames -> {NoGuard, Guard("tenantId", "tenantIsA"), Guard("accountId", "accountIsA"),
                  Guard("tenantId", "undefined"), Guard("tenantId", "throws"),
                  Guard("accountId", "rejects")}]

GuardInputs ==
  {Undefined, Str("tenant-a"),
   Obj([k \in {"tenantId"} |-> Str("tenant-a")]),
   Obj([k \in {"tenantId"} |-> Str("tenant-c")]),
   Obj([k \in {"accountId"} |-> Str("account-a")]),
   Obj([k \in {"accountId", "tenantId"} |-> IF k = "tenantId" THEN Str("tenant-a") ELSE Str("account-b")]),
   Obj([k \in {"tenantId"} |-> Obj([j \in {"id"} |-> Str("tenant-a")])])}

InitGuard ==
  /\ permissions = StoreSchema
  /\ assignments = <<>>
  /\ roleRows = [id \in RoleIdSet |-> NoRoleRow]
  /\ entityRows = EmptyBag
  /\ out = Idle
  /\ heap = <<>> /\ batches = <<>> /\ calls = <<>>
  /\ keyCache = NoKeys /\ imports = <<>> /\ authCalls = <<>>
  /\ failed = {} /\ now = 0 /\ issued = <<>>
  /\ guards \in Registries

\* auth.check(name, input), also with a name that no guard was registered under
AuthCheck ==
  \E name \in GuardNames \cup {"tenant:owner"}, input \in GuardInputs :
    /\ out' = [op |-> "auth.check", name |-> name, input |-> input,
               result |-> authCheck(guards, name, input)]
    /\ UNCHANGED <<permissions, assignments, roleRows, entityRows, roleVars, authVars,
                   tokenVars, guardVars>>

\* guard.check(input) on a registered guard
GuardCheck ==
  \E name \in GuardNames, input \in GuardInputs :
    /\ guards[name].registered
    /\ out' = [op |-> "guard.check", name |-> name, input |-> input,
               result |-> guardCheck(guards[name], input)]
    /\ UNCHANGED <<permissions, assignments, roleRows, entityRows, roleVars, authVars,
                   tokenVars, guardVars>>

NextGuard == AuthCheck \/ GuardCheck

SpecGuard == InitGuard /\ [][NextGuard]_vars

\* the input validates against z.object({ key: z.string() })
Validates(key, input) ==
  input.t = "object" /\ key \in DOMAIN input.o /\ input.o[key].t = "string"

\* the guard's handler returns true for the input
HandlerAccepts(guard, input) ==
  \/ guard.handler = "tenantIsA" /\ input.o["tenantId"] = Str("tenant-a")
  \/ guard.handler = "accountIsA" /\ input.o["accountId"] = Str("account-a")

\* C22: Auth.check(name, input) returns true if and only if a guard of that name was
\* registered, the input validates against its schema and its handler returns true for the
\* parsed input; an unknown name and an invalid input give false without throwing, and the
\* handler is not invoked in either case
C22_CheckIffGuardAccepts ==
  Called("auth.check") =>
    LET known == out.name \in GuardNames /\ guards[out.name].registered
        valid == known /\ Validates(guards[out.name].input, out.input)
    IN /\ (~out.result.threw /\ out.result.value = "true")
            <=> (valid /\ HandlerAccepts(guards[out.name], out.input))
       /\ ~valid => (out.result = Resolved("false", FALSE))

\* an input of the wrong shape for a registered guard gave false, the handler did not run
C22_Witness ==
  /\ Called("auth.check")
  /\ out.name = "tenant:related" /\ guards[out.name] = Guard("tenantId", "throws")
  /\ out.input = Obj([k \in {"accountId"} |-> Str("account-a")])
  /\ out.result = Resolved("false", FALSE)

\* C23: when a guard's handler throws or rejects for an input that passed validation,
\* Guard.check and Auth.check catch the error and return false; nothing is propagated
C23_HandlerErrorsCaught ==
  (Called("auth.check") \/ Called("guard.check")) =>
    LET known == out.name \in GuardNames /\ guards[out.name].registered IN
      (/\ known
       /\ Validates(guards[out.name].input, out.input)
       /\ guards[out.name].handler \in {"throws", "rejects"})
        => (~out.result.threw /\ out.result.value = "false")

----------------------------------------------------------------------------
(* Specification of sessions of the SQLite store: assignments change in the repository,
   resolve builds an Access from getRoles, has and check are asked of that Access *)

\* one role is stored, the user role of tenant-a
InitSession ==
  /\ permissions = StoreSchema
  /\ assignments = <<>>
  /\ roleRows = [id \in RoleIdSet |->
                  IF id = RoleIds[1]
                    THEN [exists |-> TRUE, tenantId |-> "tenant-a", permissions |-> User]
                    ELSE NoRoleRow]
  /\ entityRows = EmptyBag
  /\ out = Idle
  /\ heap = <<>> /\ batches = <<>> /\ calls = <<>>
  /\ keyCache = NoKeys /\ imports = <<>> /\ authCalls = <<>>
  /\ failed = {} /\ now = 0 /\ issued = <<>> /\ guards = NoGuards

\* the permissions of the roles, as new Access(permissions, roles) keeps them
AccessOf(roles) == [k \in 1..Len(roles) |-> roles[k].permissions]

\* SQLiteAuth.resolve(token) of a verified token of tenant t and entity e:
\* new Access(this.#permissions, await this.roles.getRoles(tenantId, entityId))
SQLiteResolve ==
  \E t \in TenantIds, e \in EntityIds :
    \E joined \in Joined(roleRows, entityRows, {t}, e), first \in FirstRows(entityRows, e) :
      LET result == getRoles(roleRows, first, joined) IN
        /\ out' = [op |-> "sqlite.resolve", tenantId |-> t, entityId |-> e, result |-> result]
        /\ assignments' = IF result.threw THEN assignments ELSE AccessOf(result.roles)
        /\ UNCHANGED <<permissions, roleRows, entityRows, roleVars, authVars, tokenVars, guardVars>>

\* a has that consumes the assignment list while it iterates over it
SessionHas_ShiftsAssignments ==
  \E r \in ResourceIds, a \in ActionIds :
    /\ out' = [op |-> "has", resourceId |-> r, actionId |-> a, data |-> UNDEFINED,
               result |-> has(permissions, assignments, r, a, UNDEFINED)]
    /\ assignments' = IF assignments = <<>> THEN assignments ELSE Tail(assignments)
    /\ UNCHANGED <<permissions, roleRows, entityRows, roleVars, authVars, tokenVars, guardVars>>

\* auth.access.has(resourceId, actionId) of the resolved session; data defaults to undefined
SessionHas ==
  \E r \in ResourceIds, a \in ActionIds :
    /\ out' = [op |-> "has", resourceId |-> r, actionId |-> a, data |-> UNDEFINED,
               result |-> has(permissions, assignments, r, a, UNDEFINED)]
    /\ UNCHANGED <<permissions, assignments, roleRows, entityRows, roleVars, authVars, tokenVars, guardVars>>

\* auth.access.check(resourceId, actionId) of the resolved session
SessionCheck ==
  \E r \in ResourceIds, a \in ActionIds :
    /\ out' = [op |-> "check", resourceId |-> r, actionId |-> a, data |-> UNDEFINED,
               result |-> check(permissions, assignments, r, a, UNDEFINED)]
    /\ UNCHANGED <<permissions, assignments, roleRows, entityRows, roleVars, authVars, tokenVars, guardVars>>

NextSession ==
  \/ AddEntity \/ SetConditions \/ SetFilters \/ DelEntity
  \/ SQLiteResolve \/ SessionHas \/ SessionCheck

SpecSession == InitSession /\ [][NextSession]_vars

----------------------------------------------------------------------------
(* Specification of the assignments of two stored roles: entities are added to and removed
   from the roles, overrides are set, and the roles of an entity are looked up *)

\* the user role of tenant-a and a moderator role of either tenant are stored
InitAssignments ==
  /\ permissions = StoreSchema
  /\ assignments = <<>>
  /\ \E t \in TenantIds :
       roleRows = [id \in RoleIdSet |->
                    IF id = RoleIds[1]
                      THEN [exists |-> TRUE, tenantId |-> "tenant-a", permissions |-> User]
                      ELSE [exists |-> TRUE, tenantId |-> t, permissions |-> Moderator]]
  /\ entityRows = EmptyBag
  /\ out = Idle
  /\ heap = <<>> /\ batches = <<>> /\ calls = <<>>
  /\ keyCache = NoKeys /\ imports = <<>> /\ authCalls = <<>>
  /\ failed = {} /\ now = 0 /\ issued = <<>> /\ guards = NoGuards

NextAssignments ==
  \/ AddEntity \/ SetConditions \/ SetFilters \/ DelEntity
  \/ GetRoles \/ GetRolesByEntityId

SpecAssignments == InitAssignments /\ [][NextAssignments]_vars

----------------------------------------------------------------------------
(* Properties of resolved sessions *)

StoreOps == {"addEntity", "setConditions", "setFilters", "delEntity"}
AccessOps == {"has", "check"}

\* the answers of the Access made of a schema and an assignment list
Answers(schema, list) ==
  [q \in ResourceIds \X ActionIds |->
    [has |-> has(schema, list, q[1], q[2], UNDEFINED),
     check |-> check(schema, list, q[1], q[2], UNDEFINED)]]

\* what a resolve of tenant t and entity e can build from the given rows
Accesses(roles, rows, t, e) ==
  {AccessOf(getRoles(roles, first, joined).roles) :
     <<first, joined>> \in {x \in FirstRows(rows, e) \X Joined(roles, rows, {t}, e) :
                              ~getRoles(roles, x[1], x[2]).threw}}

FreshAccesses(t, e) == Accesses(roleRows, entityRows, t, e)

\* C24: a has or check step leaves the schema and the assignment list of the Access
\* as they were, two has or check calls in a row with the same arguments return the
\* same result, a repository operation (addEntity, setConditions, setFilters,
\* delEntity) leaves every answer of the constructed Access as it was, and a resolve
\* that returns builds the Access from the roles getRoles returned in that step
C24_Step ==
  /\ out'.op \in AccessOps =>
       /\ permissions' = permissions
       /\ assignments' = assignments
       /\ (out.op = out'.op /\ out.resourceId = out'.resourceId /\ out.actionId = out'.actionId)
            => out'.result = out.result
  /\ out'.op \in StoreOps => Answers(permissions', assignments') = Answers(permissions, assignments)
  /\ (out'.op = "sqlite.resolve" /\ ~out'.result.threw) => assignments' = AccessOf(out'.result.roles)
  /\ (out'.op = "sqlite.resolve" /\ out'.result.threw) => assignments' = assignments
----------------------------------------------------------------------------
(* Properties of the assignment lifecycle *)

\* the results getRolesByEntityId(e) can return from the given rows
LookupsByEntity(roles, rows, e) ==
  {getRolesByEntityId(roles, first, joined) :
     <<first, joined>> \in FirstRows(rows, e) \X Joined(roles, rows, TenantIds, e)}

Returns(result, roleId) == \E k \in 1..Len(result.roles) : result.roles[k].roleId = roleId

\* C25: after addEntity(R, e) on a pair that was not assigned, every getRolesByEntityId(e)
\* that returns contains R and gives it the permissions stored for R; after
\* delEntity(R, e) no row of the pair is left, so no override of it is left, and every
\* getRolesByEntityId(e) that returns is without R; a getRolesByEntityId that returns
\* contains exactly the stored roles that have a row for the entity
C25_Step ==
  /\ out'.op = "addEntity" =>
       \A R \in RoleIdSet, e \in EntityIds :
         (EntityRowsOf(entityRows, R, e) = {} /\ EntityRowsOf(entityRows', R, e) # {}) =>
           \A result \in LookupsByEntity(roleRows', entityRows', e) :
             ~result.threw =>
               /\ Returns(result, R)
               /\ \A k \in 1..Len(result.roles) :
                    result.roles[k].roleId = R => result.roles[k].permissions = roleRows[R].permissions
  /\ out'.op = "delEntity" =>
       \A R \in RoleIdSet, e \in EntityIds :
         (EntityRowsOf(entityRows, R, e) # {} /\ entityRows' # entityRows
            /\ \A row \in BagToSet(entityRows) \ EntityRowsOf(entityRows, R, e) :
                 row \in BagToSet(entityRows') /\ entityRows'[row] = entityRows[row]) =>
           /\ EntityRowsOf(entityRows', R, e) = {}
           /\ \A result \in LookupsByEntity(roleRows', entityRows', e) :
                ~result.threw => ~Returns(result, R)
  /\ (out'.op = "getRolesByEntityId" /\ ~out'.result.threw) =>
       \A R \in RoleIdSet :
         Returns(out'.result, R) <=>
           (roleRows'[R].exists /\ EntityRowsOf(entityRows', R, out'.entityId) # {})
----------------------------------------------------------------------------
(* Properties of the order of the steps of Auth.resolve *)

\* C26: a settled Auth.resolve that failed in the verification of the token or in the
\* parse of the session never called getBySession; one that returned a valid result, or
\* that failed in the roles provider, called it exactly once, with the parsed session
C26_RolesAfterVerification ==
  \A c \in 1..Len(authCalls) :
    ResolveOf("Auth", c) =>
      LET call == authCalls[c] IN
        /\ (~call.result.valid /\ call.result.stage \in {"jwtVerify", "parseAsync"}) => call.lookups = <<>>
        /\ (call.result.valid \/ call.result.stage = "getBySession") => call.lookups = <<call.token>>
        /\ call.lookups # <<>> => (jwtVerify(call.token).ok /\ call.token.shape)

\* a verified token whose claims do not fit the session schema was resolved, and so was
\* a valid one
C26_Witness ==
  \E c, d \in 1..Len(authCalls) :
    /\ ResolveOf("Auth", c) /\ authCalls[c].result.stage = "parseAsync" /\ authCalls[c].lookups = <<>>
    /\ ResolveOf("Auth", d) /\ authCalls[d].result.valid /\ authCalls[d].lookups = <<authCalls[d].token>>

----------------------------------------------------------------------------
(* Properties of the tenant scope of getRoles *)

\* C27: a getRoles(tenantId, entityId) that returns contains only stored roles of the given
\* tenant that have a row for the entity, and contains every such role, so the role list
\* SQLiteAuth.resolve hands to the Access has no role of another tenant
C27_TenantScoped ==
  (Called("getRoles") /\ ~out.result.threw) =>
    /\ \A k \in 1..Len(out.result.roles) :
         LET role == out.result.roles[k] IN
           /\ role.tenantId = out.tenantId
           /\ roleRows[role.roleId].exists
           /\ roleRows[role.roleId].tenantId = out.tenantId
           /\ EntityRowsOf(entityRows, role.roleId, out.entityId) # {}
    /\ \A R \in RoleIdSet :
         (roleRows[R].exists /\ roleRows[R].tenantId = out.tenantId
            /\ EntityRowsOf(entityRows, R, out.entityId) # {}) => Returns(out.result, R)

\* the entity is assigned to roles of two tenants and getRoles returned the one of tenant-a
C27_Witness ==
  /\ Called("getRoles") /\ ~out.result.threw /\ out.tenantId = "tenant-a"
  /\ Len(out.result.roles) = 1 /\ out.result.roles[1].roleId = RoleIds[1]
  /\ roleRows[RoleIds[2]].tenantId = "tenant-b"
  /\ \A R \in RoleIdSet : EntityRowsOf(entityRows, R, out.entityId) # {}

----------------------------------------------------------------------------
(* Properties of the merged filter *)

\* C28: the Permission of a granted check is the same for every data argument that is
\* granted, and its attributes contain the filter of every assignment whose entry for the
\* resource and action is an object with a filter, also of an assignment whose conditions
\* the validator rejected for the data
C28_FilterIndependentOfData ==
  (Called("check") /\ out.result.granted) =>
    /\ \A d \in DataValues :
         has(permissions, assignments, out.resourceId, out.actionId, d) =>
           check(permissions, assignments, out.resourceId, out.actionId, d) = out.result
    /\ \A i \in Roles :
         (Entry(i).kind = "object" /\ Entry(i).hasFilter) =>
           /\ out.result.hasAttributes
           /\ Range(Entry(i).filter) \subseteq Range(out.result.attributes)

\* a check granted by a role whose conditions fit the data, while the role that carries
\* the filter has conditions the validator rejected: the filter is in the attributes
C28_Witness ==
  /\ Called("check") /\ out.result.granted /\ DeclaresValidator
  /\ \E i, j \in Roles :
       /\ Entry(i).kind = "object" /\ Entry(i).hasConditions /\ Entry(i).hasFilter /\ ~Passes(i)
       /\ Passes(j) /\ ~Entry(j).hasFilter
       /\ Range(Entry(i).filter) \subseteq Range(out.result.attributes)

----------------------------------------------------------------------------
(* Properties of overrides on actions the role does not grant *)

\* the rows of the pair all carry a filter override for the resource and action
Overridden(rows, R, e, p) ==
  /\ EntityRowsOf(rows, R, e) # {}
  /\ \A row \in EntityRowsOf(rows, R, e) : ~row.filters.null /\ row.filters.value[p].defined

\* C29: after a setFilters on a pair (R, e) for a resource and action that has no validator
\* in the schema and no entry in R, every Access a resolve of e builds answers has with
\* true, the Accesses a resolve of any other entity builds are the ones it built before,
\* and the stored permissions of R are unchanged and still without the entry
C29_Step ==
  out'.op = "setFilters" =>
    /\ roleRows' = roleRows
    /\ \A R \in RoleIdSet, e \in EntityIds, p \in Pairs :
         ( /\ roleRows[R].exists
           /\ RoleAction(roleRows[R].permissions, p[1], p[2]).kind = "undefined"
           /\ ~getActionValidator(permissions, p[1], p[2]).defined
           /\ EntityRowsOf(entityRows', R, e) # EntityRowsOf(entityRows, R, e)
           /\ Overridden(entityRows', R, e, p) ) =>
             /\ \A fresh \in Accesses(roleRows', entityRows', roleRows[R].tenantId, e) :
                  has(permissions, fresh, p[1], p[2], UNDEFINED)
             /\ \A other \in EntityIds \ {e}, t \in TenantIds :
                  Accesses(roleRows', entityRows', t, other) = Accesses(roleRows, entityRows, t, other)
             /\ RoleAction(roleRows'[R].permissions, p[1], p[2]).kind = "undefined"
C29_OverrideCreatesEntry == [][C29_Step]_vars

\* two entities hold the user role, which has no entry for users/update; after setFilters
\* on one of them a resolve of it is allowed to update and a resolve of the other is not
C29_Witness ==
  /\ out.op = "setFilters"
  /\ RoleAction(roleRows[RoleIds[1]].permissions, "users", "update").kind = "undefined"
  /\ \E e, other \in EntityIds :
       /\ e # other
       /\ Overridden(entityRows, RoleIds[1], e, <<"users", "update">>)
       /\ EntityRowsOf(entityRows, RoleIds[1], other) # {}
       /\ Accesses(roleRows, entityRows, "tenant-a", e) # {}
       /\ \A fresh \in Accesses(roleRows, entityRows, "tenant-a", e) :
            has(permissions, fresh, "users", "update", UNDEFINED)
       /\ Accesses(roleRows, entityRows, "tenant-a", other) # {}
       /\ \A fresh \in Accesses(roleRows, entityRows, "tenant-a", other) :
            ~has(permissions, fresh, "users", "update", UNDEFINED)

----------------------------------------------------------------------------
(* Termination of generate and resolve *)

\* C30: every call to generate or resolve that was started is settled at some later
\* time, with a result or a failure, also when the import of its key fails
C30_EveryCallCompletes ==
  \A c \in 1..MaxAuthCalls :
    (Len(authCalls) >= c) ~> (Len(authCalls) >= c /\ authCalls[c].pc = "settled")

====
